---- MODULE Spec2Model ----
(***************************************************************************)
(* Model of the analytic core of the restaurant-analytics server:          *)
(*   - the cover forecaster            (routes/forecast, POST /covers)     *)
(*   - the schedule optimizer          (routes/staff, POST /schedule/...)  *)
(*   - the menu-engineering analysis   (routes/menu, GET /engineering)     *)
(*   - the at-risk customer ranking    (routes/customers, GET /at-risk)    *)
(*                                                                         *)
(* Instants are integer ticks, TicksPerDay ticks to a UTC day; day numbers *)
(* count from 1970-01-01.  Real-valued statistics are kept in fixed point, *)
(* Scale units to one cover.                                               *)
(***************************************************************************)
EXTENDS Integers, Sequences, FiniteSets, TLC

VARIABLES
    orders,        \* closed orders of the restaurant: sequence of [closedAt, guests]
    now,           \* the wall clock (tick)
    forecasts,     \* the demand_forecasts table: set of rows
    req,           \* per in-flight forecast request: its handler's locals
    runs,          \* number of forecast requests started so far
    tz,            \* the server's time zone: local time minus UTC, in ticks
    staff,         \* the staff table: sequence of [id, role, isActive] (roster order)
    schedule,      \* response of the last schedule-optimize request, or NoResult
    shifts,        \* the shifts of the requested range: sequence of rows
    labor,         \* response of the last labor-analytics request, or NoResult
    menuItems,     \* the menu_items table: sequence of [id, isActive]
    orderItems,    \* order items in the requested range: sequence of rows
    engineering,   \* response of the last menu-engineering request, or NoResult
    customers,     \* the customers table: set of rows
    atRisk,        \* response of the last at-risk request, or NoResult
    atRiskPrev,    \* response of the at-risk request before it, or NoResult
    segments,      \* response of the last segments request, or NoResult
    response,      \* the last HTTP response of the by-id routes, or NoResult
    inventory,     \* the inventory_items table: sequence of rows
    wasteLogs,     \* the waste_log table: sequence of rows
    rateKey,       \* the counter key of the rate limiter in Redis
    calls          \* the calls of checkRateLimit, each with its position

vars == <<orders, now, forecasts, req, runs, tz, staff, schedule, shifts, labor,
          menuItems, orderItems, engineering, customers, atRisk, atRiskPrev,
          segments, response, inventory, wasteLogs, rateKey, calls>>

forecastVars == <<orders, now, forecasts, req, runs, tz>>
staffVars    == <<staff, schedule, shifts, labor>>
menuVars     == <<menuItems, orderItems, engineering>>
customerVars == <<customers, atRisk, atRiskPrev, segments>>
httpVars     == <<response>>
inventoryVars == <<inventory, wasteLogs>>
limiterVars  == <<rateKey, calls>>
otherVars    == <<httpVars, inventoryVars, limiterVars>>

NoResult == [kind |-> "none"]

\* a nullable column without a value
Null == -1

-----------------------------------------------------------------------------
(* Bounds of the model *)

TicksPerDay == 2         \* resolution of the clock within one day
Scale       == 100       \* fixed-point units per cover
Day0        == 19723     \* the day the clock starts on (2024-01-01, a Monday)
MaxTicks    == 1         \* how far the clock advances
MaxOrders   == 2         \* closed orders in the history
MaxDays     == 2         \* largest `days` a forecast request asks for
MaxRuns     == 2         \* forecast requests started in one behaviour
MaxStaff    == 2         \* rows of the staff table
MaxItems    == 3         \* rows of the menu_items table
MaxOrderItems == 2       \* order items in the requested range
MaxCustomers == 3        \* rows of the customers table
MaxShifts   == 2         \* shifts in the requested range
MaxInventory == 2        \* rows of the inventory_items table
MaxWasteLogs == 2        \* rows the waste_log table grows to
MaxCalls    == 3         \* calls of checkRateLimit in one behaviour

(* Program constants *)

HistoryDays == 90        \* trailing window of the history query
DefaultMean == 50        \* statistics of a weekday without history
DefaultStd  == 10
DefaultCovers   == 50    \* forecast.predictedCovers || 50
CoversPerServer == 20
CoversPerCook   == 40
ShiftHours      == 9     \* the 11:00-20:00 shift
DefaultMaxHours == 40    \* maxHoursPerEmployee
DaysPerWeek     == 7
MinDays         == 1     \* days: z.number().min(1).max(14).default(7)
MaxForecastDays == 14
DefaultDays     == 7
DefaultHourlyRate == 1500  \* shift.staff?.hourlyRate || 15, in cents
DefaultMinRisk  == 50    \* minRisk, in hundredths
DefaultLimit    == 50    \* limit

-----------------------------------------------------------------------------
(* Generic helpers *)

Max(a, b) == IF a >= b THEN a ELSE b
Min(a, b) == IF a <= b THEN a ELSE b

RECURSIVE SumSet(_, _)
\* sum of f[x] over the finite set S
SumSet(S, f) ==
    IF S = {} THEN 0
    ELSE LET x == CHOOSE y \in S : TRUE IN f[x] + SumSet(S \ {x}, f)

RECURSIVE SqrtSearch(_, _, _)
\* largest r in lo..hi with r*r <= x  (lo*lo <= x is assumed)
SqrtSearch(x, lo, hi) ==
    IF lo >= hi THEN lo
    ELSE LET mid == (lo + hi + 1) \div 2 IN
         IF mid * mid <= x THEN SqrtSearch(x, mid, hi)
         ELSE SqrtSearch(x, lo, mid - 1)

\* Math.sqrt on a non-negative fixed-point square, rounded down
Sqrt(x) == SqrtSearch(x, 0, Min(x, 46340))

\* Math.round of the rational num/den (den > 0): floor(num/den + 1/2)
MathRound(num, den) == (2 * num + den) \div (2 * den)

-----------------------------------------------------------------------------
(* Time *)

DayOf(t)      == t \div TicksPerDay                \* toISOString().slice(0, 10)
AddDays(t, i) == t + i * TicksPerDay               \* t + i * 24 * 60 * 60 * 1000
getDay(d)     == (d + 4) % 7                       \* 0 = Sunday; 1970-01-01 was a Thursday

StartTick == Day0 * TicksPerDay

\* the calendar day instant t falls on in the server's time zone
LocalDayOf(t) == DayOf(t + tz)

-----------------------------------------------------------------------------
(* The forecaster: POST /covers/:restaurantId *)

Slots == {1, 2}

\* closed orders of the trailing 90 days
historicalOrders(t) ==
    { k \in DOMAIN orders : orders[k].closedAt >= t - HistoryDays * TicksPerDay }

\* o.guests || 1
GuestsOrOne(g) == IF g = 0 THEN 1 ELSE g

\* Map date -> total guests; dates without orders are absent
dailyCovers(t) ==
    LET hist  == historicalOrders(t)
        dates == { DayOf(orders[k].closedAt) : k \in hist }
    IN  [ d \in dates |->
            SumSet({ k \in hist : DayOf(orders[k].closedAt) = d },
                   [ k \in DOMAIN orders |-> GuestsOrOne(orders[k].guests) ]) ]

\* the dates of the series that new Date(date).getDay() puts on weekday dow:
\* the date string is read as UTC midnight, its weekday is taken in local time
dowAverages(t, dow) ==
    { d \in DOMAIN dailyCovers(t) : getDay(LocalDayOf(d * TicksPerDay)) = dow }

\* { mean, std } of the daily totals of weekday dow, in fixed point
dowMeans(t, dow) ==
    LET dc  == dailyCovers(t)
        ds  == dowAverages(t, dow)
        n   == Cardinality(ds)
        sum == SumSet(ds, dc)
        sq  == SumSet(ds, [ d \in ds |-> (n * dc[d] - sum) * (n * dc[d] - sum) ])
    IN  [ mean |-> (sum * Scale) \div n,
          std  |-> Sqrt((sq * Scale * Scale) \div (n * n * n)) ]

\* the Map dowMeans: an entry for each weekday that has history
dowMeansMap(t) ==
    [ dow \in { w \in 0..6 : dowAverages(t, w) # {} } |-> dowMeans(t, dow) ]

\* dowMeans.get(dow) || { mean: 50, std: 10 }
stats(means, dow) ==
    IF dow \in DOMAIN means THEN means[dow]
    ELSE [ mean |-> DefaultMean * Scale, std |-> DefaultStd * Scale ]

\* Math.random(): a value of [0, 1) in fixed point
RandomVals == {0, Scale \div 2, Scale - 1}
\* its two extremes only
RandomEnds == {0, Scale - 1}
\* its middle only
RandomMid == {Scale \div 2}

\* (Math.random() - 0.5) * stats.std * 0.5
variation(rnd, st) == ((2 * rnd - Scale) * st.std) \div (4 * Scale)

\* Math.round(stats.mean + variation)
predicted(rnd, st) == MathRound(st.mean + variation(rnd, st), Scale)

\* as confidenceLow, the floor at 0 forgotten
confidenceLowNoFloor(p, st) == MathRound(2 * p * Scale - 3 * st.std, 2 * Scale)

\* Math.max(0, Math.round(predicted - stats.std * 1.5))
confidenceLow(p, st) == Max(0, MathRound(2 * p * Scale - 3 * st.std, 2 * Scale))

\* Math.round(predicted + stats.std * 1.5)
confidenceHigh(p, st) == MathRound(2 * p * Scale + 3 * st.std, 2 * Scale)

\* as StoredDate, were the column a timestamp
StoredInstant(t) == t

\* the value of a DATE column: the instant cut to its UTC day
StoredDate(t) == DayOf(t) * TicksPerDay

\* as Upsert, a plain create: the row is inserted whether or not the key exists
UpsertAlwaysCreates(rows, t, p, lo, hi) ==
    rows \cup { [ forecastDate |-> StoredDate(t), predictedCovers |-> p,
                  confidenceLow |-> lo, confidenceHigh |-> hi ] }

\* as Upsert, an existing row left as it is
UpsertKeepsExisting(rows, t, p, lo, hi) ==
    LET key == StoredDate(t) IN
    IF \E r \in rows : r.forecastDate = key
    THEN rows
    ELSE rows \cup { [ forecastDate |-> key, predictedCovers |-> p,
                       confidenceLow |-> lo, confidenceHigh |-> hi ] }

\* as Upsert, the update branch leaving confidenceHigh out
UpsertUpdateDropsHigh(rows, t, p, lo, hi) ==
    LET key == StoredDate(t) IN
    IF \E r \in rows : r.forecastDate = key
    THEN { IF r.forecastDate = key
           THEN [ r EXCEPT !.predictedCovers = p, !.confidenceLow = lo ]
           ELSE r : r \in rows }
    ELSE rows \cup { [ forecastDate |-> key, predictedCovers |-> p,
                       confidenceLow |-> lo, confidenceHigh |-> hi ] }

\* prisma.demandForecast.upsert on the unique key (restaurantId, forecastDate)
Upsert(rows, t, p, lo, hi) ==
    LET key == StoredDate(t) IN
    IF \E r \in rows : r.forecastDate = key
    THEN { IF r.forecastDate = key
           THEN [ r EXCEPT !.predictedCovers = p, !.confidenceLow = lo, !.confidenceHigh = hi ]
           ELSE r : r \in rows }
    ELSE rows \cup { [ forecastDate |-> key, predictedCovers |-> p,
                       confidenceLow |-> lo, confidenceHigh |-> hi ] }

\* as LoopContinues, with < for <=
LoopContinuesStrict(i, days) == i < days

\* the condition of `for (let i = 1; i <= days; i++)`
LoopContinues(i, days) == i <= days

\* schema.parse(req.body).days for a valid body: the default when it has none
daysOrDefault(days) == IF days = -1 THEN DefaultDays ELSE days

IdleReq == [ pc |-> "idle", today |-> 0, days |-> 0, i |-> 0,
             dailyCovers |-> <<>>, dowMeans |-> <<>>,
             predictions |-> <<>>, written |-> <<>> ]

\* the request is parsed, the history is read, `today` is taken
StartForecast(r, days, maxRuns) ==
    /\ req[r].pc \in {"idle", "done"}
    /\ runs < maxRuns
    /\ runs' = runs + 1
    /\ req' = [ req EXCEPT ![r] = [ pc |-> "loop", today |-> now, days |-> days, i |-> 1,
                                    dailyCovers |-> dailyCovers(now),
                                    dowMeans |-> dowMeansMap(now),
                                    predictions |-> <<>>, written |-> <<>> ] ]
    /\ UNCHANGED <<orders, now, forecasts, tz>>

\* one iteration of the loop: the prediction is pushed and the row is upserted
ForecastStep(r, rnd) ==
    /\ req[r].pc = "loop"
    /\ LoopContinues(req[r].i, req[r].days)
    /\ LET targetDate == AddDays(req[r].today, req[r].i)
           dow        == getDay(LocalDayOf(targetDate))
           st         == stats(req[r].dowMeans, dow)
           p          == predicted(rnd, st)
           lo         == confidenceLow(p, st)
           hi         == confidenceHigh(p, st)
       IN  /\ req' = [ req EXCEPT
                 ![r].i = @ + 1,
                 ![r].predictions = Append(@,
                     [ date |-> DayOf(targetDate), dayOfWeek |-> dow,
                       predictedCovers |-> Max(0, p),
                       confidenceLow |-> lo, confidenceHigh |-> hi ]),
                 ![r].written = Append(@,
                     [ forecastDate |-> targetDate, predictedCovers |-> p,
                       confidenceLow |-> lo, confidenceHigh |-> hi ]) ]
           /\ forecasts' = Upsert(forecasts, targetDate, p, lo, hi)
    /\ UNCHANGED <<orders, now, runs, tz>>

\* res.json({ success: true, data: { predictions, ... } })
ForecastRespond(r) ==
    /\ req[r].pc = "loop"
    /\ ~LoopContinues(req[r].i, req[r].days)
    /\ req' = [ req EXCEPT ![r].pc = "done" ]
    /\ UNCHANGED <<orders, now, forecasts, runs, tz>>

\* as ForecastFail, were the rows of the run taken back on failure
ForecastFailRollsBack(r) ==
    /\ req[r].pc = "loop"
    /\ LoopContinues(req[r].i, req[r].days)
    /\ req' = [ req EXCEPT ![r].pc = "failed", ![r].predictions = <<>> ]
    /\ forecasts' = { row \in forecasts :
                        \A k \in 1..Len(req[r].written) :
                            StoredDate(req[r].written[k].forecastDate) # row.forecastDate }
    /\ UNCHANGED <<orders, now, runs, tz>>

\* the upsert of an iteration rejects: the handler's catch passes the error
\* to next(), the response is an error and the predictions array is dropped
ForecastFail(r) ==
    /\ req[r].pc = "loop"
    /\ LoopContinues(req[r].i, req[r].days)
    /\ req' = [ req EXCEPT ![r].pc = "failed", ![r].predictions = <<>> ]
    /\ UNCHANGED <<orders, now, forecasts, runs, tz>>

\* time passes
Tick ==
    /\ now < StartTick + MaxTicks
    /\ now' = now + 1
    /\ UNCHANGED <<orders, forecasts, req, runs, tz>>

-----------------------------------------------------------------------------
(* The schedule optimizer: POST /schedule/optimize/:restaurantId *)

\* Math.ceil(a / b) for b > 0
MathCeil(a, b) == -((-a) \div b)

\* all orders in which findMany may return the rows of set S
Orderings(S) ==
    { f \in [ 1..Cardinality(S) -> S ] : \A a, b \in 1..Cardinality(S) : a # b => f[a] # f[b] }

\* staffHours.get(id) || 0
HoursOf(staffHours, id) == IF id \in DOMAIN staffHours THEN staffHours[id] ELSE 0

\* as SetHours, the entries of the other members lost
SetHoursDropsOthers(staffHours, id, h) == [ x \in {id} |-> h ]

\* staffHours.set(id, h)
SetHours(staffHours, id, h) ==
    [ x \in DOMAIN staffHours \cup {id} |-> IF x = id THEN h ELSE staffHours[x] ]

\* the test that lets a staff member take one more shift
UnderCap(currentHours, maxHours) == currentHours < maxHours

RECURSIVE AssignServers(_, _, _, _, _)
\* the loop `for (i = 0; i < serversNeeded && i < servers.length; i++)`, from
\* index i on; acc = [shifts, staffHours]
AssignServers(servers, i, serversNeeded, maxHours, acc) ==
    IF ~(i < serversNeeded /\ i < Len(servers)) THEN acc
    ELSE LET server       == servers[i + 1]
             currentHours == HoursOf(acc.staffHours, server.id)
         IN  IF UnderCap(currentHours, maxHours)
             THEN AssignServers(servers, i + 1, serversNeeded, maxHours,
                      [ shifts     |-> Append(acc.shifts,
                                          [ staffId |-> server.id, role |-> "server",
                                            hours |-> ShiftHours ]),
                        staffHours |-> SetHours(acc.staffHours, server.id,
                                                currentHours + ShiftHours) ])
             ELSE AssignServers(servers, i + 1, serversNeeded, maxHours, acc)

\* staff.filter((s) => s.role === 'server') over the active staff
ServersOf(roster) ==
    LET IsServer(m) == m.isActive /\ m.role = "server" IN SelectSeq(roster, IsServer)

RECURSIVE OptimizeDays(_, _, _, _, _)
\* the loop `for (const forecast of forecasts)`, from row k on;
\* acc = [recommendations, staffHours]
OptimizeDays(fs, k, roster, maxHours, acc) ==
    IF k > Len(fs) THEN acc
    ELSE LET forecast      == fs[k]
             covers        == IF forecast.predictedCovers = 0 THEN DefaultCovers
                              ELSE forecast.predictedCovers
             serversNeeded == MathCeil(covers, CoversPerServer)
             cooksNeeded   == MathCeil(covers, CoversPerCook)
             day           == AssignServers(ServersOf(roster), 0, serversNeeded, maxHours,
                                  [ shifts |-> <<>>, staffHours |-> acc.staffHours ])
         IN  OptimizeDays(fs, k + 1, roster, maxHours,
                 [ recommendations |-> Append(acc.recommendations,
                       [ date           |-> DayOf(forecast.forecastDate),
                         expectedCovers |-> covers,
                         staffing       |-> [ servers |-> serversNeeded,
                                              cooks   |-> cooksNeeded,
                                              total   |-> serversNeeded + cooksNeeded + 1 ],
                         suggestedShifts |-> day.shifts ]),
                   staffHours |-> day.staffHours ])

\* constraints?.maxHoursPerEmployee || 40
EffectiveMaxHours(maxHoursPerEmployee) ==
    IF maxHoursPerEmployee = 0 THEN DefaultMaxHours ELSE maxHoursPerEmployee

\* the rows of the week [weekStart, weekStart + 7 days)
WeekForecasts(weekStart) ==
    { f \in forecasts : f.forecastDate >= weekStart
                         /\ f.forecastDate < AddDays(weekStart, DaysPerWeek) }

RECURSIVE SumShifts(_, _)
SumShifts(recs, k) ==
    IF k > Len(recs) THEN 0 ELSE Len(recs[k].suggestedShifts) + SumShifts(recs, k + 1)

\* as Optimize, were the suggested shifts also stored as shifts
OptimizeSavingShifts(weekStart, maxHoursPerEmployee) ==
    /\ schedule = NoResult
    /\ \E fs \in Orderings(WeekForecasts(weekStart)) :
          LET out == OptimizeDays(fs, 1, staff, EffectiveMaxHours(maxHoursPerEmployee),
                         [ recommendations |-> <<>>, staffHours |-> <<>> ])
          IN  /\ schedule' = [ kind |-> "schedule",
                               weekStart |-> weekStart,
                               maxHoursPerEmployee |-> maxHoursPerEmployee,
                               recommendations |-> out.recommendations,
                               totalShiftsRecommended |-> SumShifts(out.recommendations, 1),
                               staffUtilization |-> out.staffHours ]
              /\ shifts' = shifts \o [ k \in 1..SumShifts(out.recommendations, 1) |->
                                 [ role |-> "server", scheduledMinutes |-> 60 * ShiftHours,
                                   actualMinutes |-> Null, hourlyRate |-> Null ] ]
    /\ UNCHANGED <<forecastVars, staff, labor>>

\* the whole handler: both tables are read, the week is laid out, the
\* recommendation is returned; nothing is written.  (One such request is
\* followed per behaviour.)
Optimize(weekStart, maxHoursPerEmployee) ==
    /\ schedule = NoResult
    /\ \E fs \in Orderings(WeekForecasts(weekStart)) :
          LET out == OptimizeDays(fs, 1, staff, EffectiveMaxHours(maxHoursPerEmployee),
                         [ recommendations |-> <<>>, staffHours |-> <<>> ])
          IN  schedule' = [ kind |-> "schedule",
                            weekStart |-> weekStart,
                            maxHoursPerEmployee |-> maxHoursPerEmployee,
                            recommendations |-> out.recommendations,
                            totalShiftsRecommended |-> SumShifts(out.recommendations, 1),
                            staffUtilization |-> out.staffHours ]
    /\ UNCHANGED <<forecastVars, staff, shifts, labor>>

-----------------------------------------------------------------------------
(* Registration: POST /register *)

\* the values of the role enum of the schema
RegisterRoles == {"OWNER", "MANAGER", "HOST", "SERVER", "BARTENDER", "KITCHEN", "BUSSER"}

\* a body without role
NoRole == ""

\* input.role || 'SERVER'
roleOrDefault(role) == IF role = NoRole THEN "SERVER" ELSE role

\* the whole handler, for a body that passes the schema and an email not yet
\* registered: the row is created, active by the column's default
Register(role) ==
    /\ Len(staff) < MaxStaff
    /\ staff' = Append(staff, [ id |-> Len(staff) + 1, role |-> roleOrDefault(role),
                                isActive |-> TRUE ])
    /\ UNCHANGED <<schedule, shifts, labor>>

\* the staff rows of the seed data
SeedStaff ==
    << [ id |-> 1, role |-> "MANAGER", isActive |-> TRUE ],
       [ id |-> 2, role |-> "SERVER", isActive |-> TRUE ],
       [ id |-> 3, role |-> "SERVER", isActive |-> TRUE ],
       [ id |-> 4, role |-> "KITCHEN", isActive |-> TRUE ],
       [ id |-> 5, role |-> "BARTENDER", isActive |-> TRUE ] >>

-----------------------------------------------------------------------------
(* The labor analytics: GET /labor/:restaurantId *)
(* Durations are in whole minutes, money in cents; reported hours are in   *)
(* tenths of an hour, percentages in tenths of a percent                   *)

\* the minutes a shift counts: the actual times when both are there, or the
\* scheduled ones
shiftMinutes(shift) ==
    IF shift.actualMinutes # Null THEN shift.actualMinutes ELSE shift.scheduledMinutes

\* Number(shift.staff?.hourlyRate || 15)
rateOf(shift) == IF shift.hourlyRate = Null THEN DefaultHourlyRate ELSE shift.hourlyRate

\* the entry of byRole for a role: minutes and minutes * rate summed, unrounded
\* (hours = minutes / 60, cost = minutes * rate / 60)
byRole(role) ==
    LET mine == { k \in DOMAIN shifts : shifts[k].role = role } IN
    [ minutes     |-> SumSet(mine, [ k \in DOMAIN shifts |-> shiftMinutes(shifts[k]) ]),
      rateMinutes |-> SumSet(mine, [ k \in DOMAIN shifts |->
                                       shiftMinutes(shifts[k]) * rateOf(shifts[k]) ]),
      shifts      |-> Cardinality(mine) ]

\* one record of roleBreakdown: Math.round(hours * 10) / 10 and
\* Math.round(cost * 100) / 100
roleBreakdown(role) ==
    [ role   |-> role,
      hours  |-> MathRound(10 * byRole(role).minutes, 60),
      cost   |-> MathRound(byRole(role).rateMinutes, 60),
      shifts |-> byRole(role).shifts ]

\* roleBreakdown.reduce((s, r) => s + r[field], 0)
totalOf(field) ==
    LET roles == { shifts[k].role : k \in DOMAIN shifts } IN
    SumSet(roles, [ r \in roles |-> roleBreakdown(r)[field] ])

\* the whole handler; totalRevenue is the sum of the totals of the closed
\* orders of the range
LaborAnalytics(totalRevenue) ==
    LET totalLaborCost == totalOf("cost")
        totalHours     == totalOf("hours")
        roles          == { shifts[k].role : k \in DOMAIN shifts }
    IN  /\ labor' =
              [ kind |-> "labor",
                totalRevenue |-> totalRevenue,
                totalHours   |-> totalHours,
                totalCost    |-> totalLaborCost,
                laborCostPercent  |-> IF totalRevenue > 0
                                      THEN MathRound(1000 * totalLaborCost, totalRevenue)
                                      ELSE 0,
                salesPerLaborHour |-> IF totalHours > 0
                                      THEN MathRound(10 * totalRevenue, totalHours)
                                      ELSE 0,
                byRole |-> [ r \in roles |-> roleBreakdown(r) ] ]
        /\ UNCHANGED <<staff, schedule, shifts>>

-----------------------------------------------------------------------------
(* The menu-engineering analysis: GET /engineering *)
(* Money is in whole cents; quotients are exact rationals [num, den], den > 0 *)

Rat(n, d) == IF d < 0 THEN [ num |-> -n, den |-> -d ] ELSE [ num |-> n, den |-> d ]

\* x >= 1 and x < 1 on a rational
AtLeastOne(x) == x.num >= x.den
BelowOne(x)   == x.num < x.den

\* the order items the query returns: isVoid: false
soldItems == { k \in DOMAIN orderItems : ~orderItems[k].isVoid }

\* the keys of the Map itemMetrics
metricIds == { orderItems[k].menuItemId : k \in soldItems }

\* oi.menuItem?.cost || 0
CostOf(id) == menuItems[id].cost

\* itemMetrics.get(id) || { quantity: 0, revenue: 0, cost: 0, profit: 0 }
itemMetrics(id) ==
    LET mine == { k \in soldItems : orderItems[k].menuItemId = id }
        qty  == [ k \in DOMAIN orderItems |-> orderItems[k].quantity ]
        rev  == [ k \in DOMAIN orderItems |-> orderItems[k].unitPrice * orderItems[k].quantity ]
        cst  == [ k \in DOMAIN orderItems |-> CostOf(id) * orderItems[k].quantity ]
    IN  [ quantity |-> SumSet(mine, qty),
          revenue  |-> SumSet(mine, rev),
          cost     |-> SumSet(mine, cst),
          profit   |-> SumSet(mine, rev) - SumSet(mine, cst) ]

\* sum / allMetrics.length || 1 : NaN (no entry) and 0 both give 1
AverageOrOne(sum, n) == IF n = 0 \/ sum = 0 THEN Rat(1, 1) ELSE Rat(sum, n)

\* as avgProfit, the mean taken over the active menu items
avgProfitOverMenu ==
    AverageOrOne(SumSet(metricIds, [ id \in metricIds |-> itemMetrics(id).profit ]),
                 Cardinality({ k \in DOMAIN menuItems : menuItems[k].isActive }))

avgQuantity ==
    AverageOrOne(SumSet(metricIds, [ id \in metricIds |-> itemMetrics(id).quantity ]),
                 Cardinality(metricIds))

avgProfit ==
    AverageOrOne(SumSet(metricIds, [ id \in metricIds |-> itemMetrics(id).profit ]),
                 Cardinality(metricIds))

\* as IndexOf, the value compared with the average itself: 1 when value >= avg
IndexByComparison(value, avg) ==
    IF value * avg.den >= avg.num THEN Rat(1, 1) ELSE Rat(0, 1)

\* value / avg, avg a non-zero rational
IndexOf(value, avg) == Rat(value * avg.den, avg.num)

\* as classification, with > for >=
classificationStrict(popularity, profitability) ==
    IF popularity.num > popularity.den /\ profitability.num > profitability.den THEN "Star"
    ELSE IF popularity.num > popularity.den /\ BelowOne(profitability) THEN "Plowhorse"
    ELSE IF BelowOne(popularity) /\ profitability.num > profitability.den THEN "Puzzle"
    ELSE "Dog"

\* the if / else-if chain of the classification
classification(popularity, profitability) ==
    IF AtLeastOne(popularity) /\ AtLeastOne(profitability) THEN "Star"
    ELSE IF AtLeastOne(popularity) /\ BelowOne(profitability) THEN "Plowhorse"
    ELSE IF BelowOne(popularity) /\ AtLeastOne(profitability) THEN "Puzzle"
    ELSE "Dog"

\* one record of `analysis`
Analyse(item, avgQ, avgP) ==
    LET metrics       == itemMetrics(item.id)
        popularity    == IndexOf(metrics.quantity, avgQ)
        profitability == IndexOf(metrics.profit, avgP)
    IN  [ id                 |-> item.id,
          quantitySold       |-> metrics.quantity,
          revenue            |-> metrics.revenue,
          profit             |-> metrics.profit,
          \* Math.round(contributionMargin * 10) / 10, in tenths of a percent
          contributionMargin |-> IF metrics.revenue > 0
                                 THEN MathRound(1000 * (metrics.revenue - metrics.cost),
                                                metrics.revenue)
                                 ELSE 0,
          \* Math.round(index * 100) / 100, in hundredths
          popularityIndex    |-> MathRound(100 * popularity.num, popularity.den),
          profitabilityIndex |-> MathRound(100 * profitability.num, profitability.den),
          popularity         |-> popularity,
          profitability      |-> profitability,
          classification     |-> classification(popularity, profitability) ]

\* items: the active menu items, in table order
activeItems == LET IsActive(m) == m.isActive IN SelectSeq(menuItems, IsActive)

\* items.map(...)
analysisOf(items, avgQ, avgP) == [ k \in 1..Len(items) |-> Analyse(items[k], avgQ, avgP) ]

\* analysis.filter((a) => a.classification === label)
OfClass(analysis, label) ==
    LET Is(a) == a.classification = label IN SelectSeq(analysis, Is)

\* the place of xs.sort(cmp)[0] in xs for a stable sort, key[k] being what cmp
\* orders xs[k] by, ascending: the first place whose key is the least
FirstSorted(key) ==
    CHOOSE k \in DOMAIN key :
        /\ \A m \in DOMAIN key : key[k] <= key[m]
        /\ \A m \in 1..(k - 1) : key[m] > key[k]

\* as worstDog, the sort forgotten
worstDogUnsorted(dogs) == dogs[1]

\* dogs.sort((a, b) => a.profit - b.profit)[0]
worstDog(dogs) == dogs[FirstSorted([ k \in 1..Len(dogs) |-> dogs[k].profit ])]

\* plowhorses.sort((a, b) => b.quantitySold - a.quantitySold)[0]
topPlowhorse(plowhorses) ==
    plowhorses[FirstSorted([ k \in 1..Len(plowhorses) |-> -plowhorses[k].quantitySold ])]

\* puzzles.sort((a, b) => b.profit - a.profit)[0]
topPuzzle(puzzles) == puzzles[FirstSorted([ k \in 1..Len(puzzles) |-> -puzzles[k].profit ])]

generateMenuRecommendations(analysis) ==
    LET dogs       == OfClass(analysis, "Dog")
        plowhorses == OfClass(analysis, "Plowhorse")
        puzzles    == OfClass(analysis, "Puzzle")
        recDog  == IF Len(dogs) > 0
                   THEN << [ about |-> "remove", name |-> worstDog(dogs).id ] >>
                   ELSE <<>>
        recPlow == IF Len(plowhorses) > 0
                   THEN << [ about |-> "reprice", name |-> topPlowhorse(plowhorses).id ] >>
                   ELSE <<>>
        recPuzz == IF Len(puzzles) > 0
                   THEN << [ about |-> "feature", name |-> topPuzzle(puzzles).id ] >>
                   ELSE <<>>
        recommendations == recDog \o recPlow \o recPuzz
    IN  IF Len(recommendations) = 0
        THEN << [ about |-> "balanced", name |-> 0 ] >>
        ELSE recommendations

\* the four groups of `summary`
stars(analysis)      == OfClass(analysis, "Star")
plowhorses(analysis) == OfClass(analysis, "Plowhorse")
puzzles(analysis)    == OfClass(analysis, "Puzzle")
\* as dogs, the label misspelt
dogsMisspelt(analysis) == OfClass(analysis, "Dogs")
dogs(analysis)       == OfClass(analysis, "Dog")

\* the whole handler.  (One such request is followed per behaviour.)
Engineering ==
    /\ engineering = NoResult
    /\ LET avgQ     == avgQuantity
           avgP     == avgProfit
           analysis == analysisOf(activeItems, avgQ, avgP)
       IN  engineering' =
             [ kind        |-> "engineering",
               avgQuantity |-> avgQ,
               avgProfit   |-> avgP,
               analysis    |-> analysis,
               summary     |-> [ starCount      |-> Len(stars(analysis)),
                                 plowhorseCount |-> Len(plowhorses(analysis)),
                                 puzzleCount    |-> Len(puzzles(analysis)),
                                 dogCount       |-> Len(dogs(analysis)) ],
               recommendations |-> generateMenuRecommendations(analysis) ]
    /\ UNCHANGED <<menuItems, orderItems>>

-----------------------------------------------------------------------------
(* The at-risk ranking: GET /at-risk/:restaurantId *)
(* churnRisk is in hundredths; Null is a customer without a churnRisk *)

\* where: { restaurantId, churnRisk: { gte: minRisk } }
atRiskWhere(c, restaurantId, minRisk) ==
    /\ c.restaurantId = restaurantId
    /\ c.churnRisk # Null
    /\ c.churnRisk >= minRisk

\* as orderByChurnRiskDesc, ascending
orderByChurnRiskAsc(f) ==
    \A a, b \in DOMAIN f : a < b => f[a].churnRisk <= f[b].churnRisk

\* orderBy: { churnRisk: 'desc' }: customers of equal churnRisk come in any order
orderByChurnRiskDesc(f) ==
    \A a, b \in DOMAIN f : a < b => f[a].churnRisk >= f[b].churnRisk

\* the results findMany may give: the matching rows, ordered, cut at `take`
atRiskFindMany(restaurantId, minRisk, limit) ==
    LET matching == { c \in customers : atRiskWhere(c, restaurantId, minRisk) }
    IN  { SubSeq(f, 1, Min(limit, Len(f))) :
            f \in { g \in Orderings(matching) : orderByChurnRiskDesc(g) } }

\* c.lastVisit ? Math.floor((Date.now() - c.lastVisit.getTime()) / day) : null
daysSinceVisit(c, t) ==
    IF c.lastVisit = Null THEN Null ELSE (t - c.lastVisit) \div TicksPerDay

\* as getChurnAction, with > for >= in the first rule
getChurnActionStrict(churnRisk, days) ==
    IF churnRisk > 80 THEN "urgent win-back offer with discount"
    ELSE IF churnRisk >= 60 THEN "re-engagement email"
    ELSE IF days # Null /\ days # 0 /\ days > 60 THEN "add to win-back list"
    ELSE "monitor only"

\* the first rule that matches; `daysSinceVisit && ...` is false for null and 0
getChurnAction(churnRisk, days) ==
    IF churnRisk >= 80 THEN "urgent win-back offer with discount"
    ELSE IF churnRisk >= 60 THEN "re-engagement email"
    ELSE IF days # Null /\ days # 0 /\ days > 60 THEN "add to win-back list"
    ELSE "monitor only"

\* customers.map(...): what the handler adds to each row
enrich(c, t) ==
    [ id                 |-> c.id,
      daysSinceLastVisit |-> daysSinceVisit(c, t),
      churnRiskPercent   |-> c.churnRisk,
      recommendedAction  |-> getChurnAction(c.churnRisk, daysSinceVisit(c, t)) ]

RECURSIVE SumSeq(_, _)
\* xs.reduce((s, x) => s + x, 0) from place k on
SumSeq(xs, k) == IF k > Len(xs) THEN 0 ELSE xs[k] + SumSeq(xs, k + 1)

\* a JavaScript number: NaN, or a value
NaN    == [ nan |-> TRUE ]
Num(x) == [ nan |-> FALSE, value |-> x ]

\* Math.round(sum / enriched.length * 100), churnRisk being in hundredths;
\* 0 / 0 is NaN and Math.round(NaN) is NaN
avgChurnRisk(found) ==
    IF Len(found) = 0 THEN NaN
    ELSE Num(MathRound(SumSeq([ k \in 1..Len(found) |-> found[k].churnRisk ], 1),
                       Len(found)))

\* the whole handler.  (Two such requests are followed per behaviour.)
AtRisk(restaurantId, minRisk, limit) ==
    /\ atRiskPrev = NoResult
    /\ \E found \in atRiskFindMany(restaurantId, minRisk, limit) :
          atRisk' = [ kind |-> "atRisk", restaurantId |-> restaurantId,
                      minRisk |-> minRisk, limit |-> limit, customers |-> found,
                      enriched |-> [ k \in 1..Len(found) |-> enrich(found[k], now) ],
                      summary |-> [ total |-> Len(found),
                                    avgChurnRisk |-> avgChurnRisk(found) ] ]
    /\ atRiskPrev' = atRisk
    /\ UNCHANGED <<customers, segments>>

-----------------------------------------------------------------------------
(* The segment overview: GET /segments/:restaurantId *)
(* Of the aggregated columns the model keeps churnRisk *)

\* the groups of groupBy({ by: ['rfmSegment'], where: { restaurantId } })
segmentGroups(restaurantId) ==
    { c.rfmSegment : c \in { x \in customers : x.restaurantId = restaurantId } }

\* the customers of one group
segmentMembers(restaurantId, segment) ==
    { c \in customers : c.restaurantId = restaurantId /\ c.rfmSegment = segment }

\* Math.round(Number(s._avg.churnRisk || 0) * 100) / 100; the average is
\* over the rows that have a churnRisk and is null when none has
segmentAvgChurnRisk(members) ==
    LET rated == { c \in members : c.churnRisk # Null } IN
    IF rated = {} THEN 0
    ELSE MathRound(SumSet(rated, [ c \in rated |-> c.churnRisk ]), Cardinality(rated))

\* the whole handler; percentages are in tenths of a percent.  (One such
\* request is followed per behaviour.)
Segments(restaurantId) ==
    /\ segments = NoResult
    /\ LET groups         == segmentGroups(restaurantId)
           count(g)       == Cardinality(segmentMembers(restaurantId, g))
           totalCustomers == SumSet(groups, [ g \in groups |-> count(g) ])
       IN  segments' =
             [ kind |-> "segments", restaurantId |-> restaurantId,
               segments |-> [ g \in groups |->
                    [ segment |-> g, count |-> count(g),
                      avgChurnRisk |->
                          segmentAvgChurnRisk(segmentMembers(restaurantId, g)) ] ],
               totalCustomers |-> totalCustomers,
               distribution |-> [ g \in groups |->
                    IF totalCustomers > 0 THEN MathRound(1000 * count(g), totalCustomers)
                    ELSE 0 ] ]
    /\ UNCHANGED <<customers, atRisk, atRiskPrev>>

-----------------------------------------------------------------------------
(* The inventory: POST /count and POST /waste *)
(* An item's id is its place in the table; quantities are whole units and   *)
(* costs whole cents                                                        *)

\* prisma.inventoryItem.update({ where: { id }, data: { currentQuantity } })
SetQuantity(table, id, quantity) == [ table EXCEPT ![id].currentQuantity = quantity ]

RECURSIVE CountLoop(_, _, _)
\* the loop `for (const item of items)`, from entry k on: the update of an id
\* that is not in the table rejects and ends the request, the updates made
\* before it stay
CountLoop(table, items, k) ==
    IF k > Len(items) THEN table
    ELSE IF items[k].id \notin DOMAIN table THEN table
    ELSE CountLoop(SetQuantity(table, items[k].id, items[k].quantity), items, k + 1)

\* the whole handler of POST /count, for a body that passes the schema
\* (every quantity >= 0)
InventoryCount(items) ==
    /\ \A k \in DOMAIN items : items[k].quantity >= 0
    /\ inventory' = CountLoop(inventory, items, 1)
    /\ UNCHANGED wasteLogs

\* currentQuantity: { decrement: input.quantity }
Decrement(currentQuantity, quantity) == currentQuantity - quantity

\* the whole handler of POST /waste, for a body that passes the schema
\* (quantity > 0) and names an inventory item or none; cost 0 stands for a
\* body without cost.  The insert of a row that names an item not in the
\* table is rejected by the foreign key and nothing is written.
InventoryWaste(inventoryItemId, quantity, cost) ==
    /\ quantity > 0
    /\ Len(wasteLogs) < MaxWasteLogs
    /\ IF inventoryItemId # Null /\ inventoryItemId \notin DOMAIN inventory
       THEN UNCHANGED <<inventory, wasteLogs>>
       ELSE /\ wasteLogs' = Append(wasteLogs,
                  [ inventoryItemId |-> inventoryItemId, quantity |-> quantity,
                    cost |-> IF cost # 0 THEN cost
                             ELSE IF inventoryItemId # Null
                                  THEN quantity * inventory[inventoryItemId].unitCost
                                  ELSE Null ])
            /\ inventory' =
                  IF inventoryItemId # Null
                  THEN SetQuantity(inventory, inventoryItemId,
                           Decrement(inventory[inventoryItemId].currentQuantity, quantity))
                  ELSE inventory

-----------------------------------------------------------------------------
(* The rate limiter: checkRateLimit(key, maxRequests, windowSeconds) *)
(* One key; the window is in ticks of the clock *)

RateMax    == 2          \* maxRequests of the calls
RateWindow == 1          \* windowSeconds of the calls

\* the key is in Redis at instant t: it was set and has not expired
KeyLive(t) == rateKey.count > 0 /\ (rateKey.expiry = Null \/ t < rateKey.expiry)

\* { allowed: current <= maxRequests, remaining: Math.max(0, maxRequests - current) }
RateResult(current) ==
    [ kind |-> "rate", allowed |-> current <= RateMax,
      remaining |-> Max(0, RateMax - current) ]

\* the catch: { allowed: true, remaining: maxRequests }
RateFailOpen == [ kind |-> "rate", allowed |-> TRUE, remaining |-> RateMax ]

\* redis.incr(key): a key that is not there starts at 1, without expiry;
\* the call returns unless current === 1
RateIncr(c) ==
    /\ calls[c].pc = "idle"
    /\ LET current == IF KeyLive(now) THEN rateKey.count + 1 ELSE 1 IN
       /\ rateKey' = IF KeyLive(now) THEN [ rateKey EXCEPT !.count = current ]
                     ELSE [ count |-> 1, expiry |-> Null ]
       /\ calls' = [ calls EXCEPT ![c] =
              IF current = 1
              THEN [ pc |-> "expire", current |-> current, result |-> NoResult ]
              ELSE [ pc |-> "done", current |-> current, result |-> RateResult(current) ] ]

\* redis.incr(key) rejects
RateIncrFail(c) ==
    /\ calls[c].pc = "idle"
    /\ calls' = [ calls EXCEPT ![c] = [ pc |-> "done", current |-> Null,
                                        result |-> RateFailOpen ] ]
    /\ UNCHANGED rateKey

\* redis.expire(key, windowSeconds), and the return
RateExpire(c) ==
    /\ calls[c].pc = "expire"
    /\ rateKey' = IF KeyLive(now) THEN [ rateKey EXCEPT !.expiry = now + RateWindow ]
                  ELSE rateKey
    /\ calls' = [ calls EXCEPT ![c].pc = "done", ![c].result = RateResult(calls[c].current) ]

\* redis.expire(key, windowSeconds) rejects after the increment
RateExpireFail(c) ==
    /\ calls[c].pc = "expire"
    /\ calls' = [ calls EXCEPT ![c].pc = "done", ![c].result = RateFailOpen ]
    /\ UNCHANGED rateKey

-----------------------------------------------------------------------------
(* The routes that address one entity by id, and the error handler *)
(* An id is the entity's place in its table; days and costs not given are Null *)

ZodError(issues)  == [ type |-> "ZodError", errors |-> issues ]
PrismaError(code) == [ type |-> "Prisma", code |-> code ]

HttpResponse(request, status, success, details) ==
    [ kind |-> "http", request |-> request, status |-> status, success |-> success,
      details |-> details ]

\* e.path.join('.'): a path of one key is that key; the schemas of these
\* routes have no nested keys
JoinPath(path) == IF Len(path) = 1 THEN path[1] ELSE path

\* as errorHandler, without the branch for ZodError
errorHandlerNoZod(request, err) ==
    IF err.type = "Prisma"
    THEN IF err.code = "P2002" THEN HttpResponse(request, 409, FALSE, <<>>)
         ELSE IF err.code = "P2025" THEN HttpResponse(request, 404, FALSE, <<>>)
         ELSE HttpResponse(request, 400, FALSE, <<>>)
    ELSE HttpResponse(request, 500, FALSE, <<>>)

\* the response errorHandler sends for an error passed to next()
errorHandler(request, err) ==
    IF err.type = "ZodError"
    THEN HttpResponse(request, 400, FALSE,
             [ k \in 1..Len(err.errors) |->
                 [ field |-> JoinPath(err.errors[k].path), message |-> err.errors[k].message ] ])
    ELSE IF err.type = "Prisma"
    THEN IF err.code = "P2002" THEN HttpResponse(request, 409, FALSE, <<>>)
         ELSE IF err.code = "P2025" THEN HttpResponse(request, 404, FALSE, <<>>)
         ELSE HttpResponse(request, 400, FALSE, <<>>)
    ELSE HttpResponse(request, 500, FALSE, <<>>)

\* z.coerce.number().min(lo).max(hi).default(dflt) on the query's days
parseDays(days, lo, hi, dflt) ==
    IF days = Null THEN [ ok |-> TRUE, value |-> dflt ]
    ELSE IF days < lo
    THEN [ ok |-> FALSE,
           error |-> ZodError(<< [ path |-> <<"days">>, message |-> "too small" ] >>) ]
    ELSE IF days > hi
    THEN [ ok |-> FALSE,
           error |-> ZodError(<< [ path |-> <<"days">>, message |-> "too big" ] >>) ]
    ELSE [ ok |-> TRUE, value |-> days ]

\* the issue of z.number().positive().optional() for one key of the body
positiveIssue(body, key) ==
    IF body[key] # Null /\ body[key] <= 0
    THEN << [ path |-> <<key>>, message |-> "must be greater than 0" ] >>
    ELSE <<>>

\* schema.parse(req.body) of PATCH /:id: every key is checked, all issues are kept
parsePatch(body) ==
    LET issues == positiveIssue(body, "price") \o positiveIssue(body, "cost") IN
    IF Len(issues) > 0 THEN [ ok |-> FALSE, error |-> ZodError(issues) ]
    ELSE [ ok |-> TRUE, value |-> body ]

\* GET /api/menu/:id/performance
MenuItemPerformance(id, days) ==
    LET request == [ route |-> "GET menu/:id/performance", id |-> id, days |-> days ]
        parsed  == parseDays(days, 7, 365, 30)
    IN  /\ response' = IF ~parsed.ok THEN errorHandler(request, parsed.error)
                        ELSE IF id \notin DOMAIN menuItems
                        THEN HttpResponse(request, 404, FALSE, <<>>)
                        ELSE HttpResponse(request, 200, TRUE, <<>>)
        /\ UNCHANGED <<menuItems, staff, customers, orders>>

\* PATCH /api/menu/:id: prisma.menuItem.update throws P2025 without the row
MenuItemPatch(id, body) ==
    LET request == [ route |-> "PATCH menu/:id", id |-> id, body |-> body ]
        parsed  == parsePatch(body)
    IN  /\ IF ~parsed.ok
           THEN response' = errorHandler(request, parsed.error) /\ UNCHANGED menuItems
           ELSE IF id \notin DOMAIN menuItems
           THEN response' = errorHandler(request, PrismaError("P2025")) /\ UNCHANGED menuItems
           ELSE /\ menuItems' = [ menuItems EXCEPT ![id].cost =
                                      IF parsed.value.cost = Null THEN @ ELSE parsed.value.cost ]
                /\ response' = HttpResponse(request, 200, TRUE, <<>>)
        /\ UNCHANGED <<staff, customers, orders>>

\* GET /api/staff/:id/performance
StaffPerformance(id, days) ==
    LET request == [ route |-> "GET staff/:id/performance", id |-> id, days |-> days ]
        parsed  == parseDays(days, 7, 90, 30)
    IN  /\ response' = IF ~parsed.ok THEN errorHandler(request, parsed.error)
                        ELSE IF id \notin DOMAIN staff
                        THEN HttpResponse(request, 404, FALSE, <<>>)
                        ELSE HttpResponse(request, 200, TRUE, <<>>)
        /\ UNCHANGED <<menuItems, staff, customers, orders>>

\* GET /api/customers/:id
CustomerById(id) ==
    LET request == [ route |-> "GET customers/:id", id |-> id ] IN
    /\ response' = IF \E c \in customers : c.id = id
                    THEN HttpResponse(request, 200, TRUE, <<>>)
                    ELSE HttpResponse(request, 404, FALSE, <<>>)
    /\ UNCHANGED <<menuItems, staff, customers, orders>>

\* GET /api/orders/:id
OrderById(id) ==
    LET request == [ route |-> "GET orders/:id", id |-> id ] IN
    /\ response' = IF id \in DOMAIN orders
                    THEN HttpResponse(request, 200, TRUE, <<>>)
                    ELSE HttpResponse(request, 404, FALSE, <<>>)
    /\ UNCHANGED <<menuItems, staff, customers, orders>>

-----------------------------------------------------------------------------
(* Histories the model draws from *)

GuestVals == {0, 2, 40}
HistTimes == { (Day0 - 6) * TicksPerDay, (Day0 - 13) * TicksPerDay + 1,
               (Day0 - 96) * TicksPerDay }

OrderRows == [ closedAt : HistTimes, guests : GuestVals ]

\* no history at all, and two Tuesdays with very different covers
FewHistories ==
    { <<>>,
      << [ closedAt |-> (Day0 - 6) * TicksPerDay, guests |-> 0 ],
         [ closedAt |-> (Day0 - 13) * TicksPerDay + 1, guests |-> 40 ] >> }

\* no request yet, on a server in one of the given time zones
InitRequestsIn(zones) ==
    /\ now = StartTick
    /\ forecasts = {}
    /\ req = [ r \in Slots |-> IdleReq ]
    /\ runs = 0
    /\ tz \in zones

\* on a server that runs in UTC
InitRequests == InitRequestsIn({0})

\* no key in Redis, no call made
NoKey == [ count |-> 0, expiry |-> Null ]
IdleCall == [ pc |-> "idle", current |-> Null, result |-> NoResult ]

CallSlots == 1..MaxCalls

InitNoInventory == inventory = <<>> /\ wasteLogs = <<>>
InitNoLimiter == rateKey = NoKey /\ calls = [ c \in CallSlots |-> IdleCall ]
InitNoShifts == shifts = <<>> /\ labor = NoResult
InitNoStaff == staff = <<>> /\ schedule = NoResult /\ InitNoShifts
InitNoMenu ==
    /\ menuItems = <<>> /\ orderItems = <<>> /\ engineering = NoResult
    /\ response = NoResult
    /\ InitNoInventory /\ InitNoLimiter
InitNoCustomers ==
    /\ customers = {} /\ atRisk = NoResult /\ atRiskPrev = NoResult
    /\ segments = NoResult

-----------------------------------------------------------------------------
(* Spec: forecast requests, two of them at a time, while time passes *)

Init ==
    /\ orders \in FewHistories
    /\ InitRequests /\ InitNoStaff /\ InitNoMenu /\ InitNoCustomers

Next ==
    \/ \E r \in Slots, days \in 1..MaxDays :
          StartForecast(r, days, MaxRuns) /\ UNCHANGED <<staffVars, menuVars, customerVars, otherVars>>
    \/ \E r \in Slots, rnd \in RandomEnds :
          ForecastStep(r, rnd) /\ UNCHANGED <<staffVars, menuVars, customerVars, otherVars>>
    \/ \E r \in Slots :
          ForecastRespond(r) /\ UNCHANGED <<staffVars, menuVars, customerVars, otherVars>>
    \/ Tick /\ UNCHANGED <<staffVars, menuVars, customerVars, otherVars>>

Spec == Init /\ [][Next]_vars

-----------------------------------------------------------------------------
(* SpecStats: one forecast request over every history of MaxOrders orders *)

InitStats ==
    /\ orders \in [ 1..MaxOrders -> OrderRows ]
    /\ InitRequests /\ InitNoStaff /\ InitNoMenu /\ InitNoCustomers

NextStats ==
    \/ \E days \in 1..MaxDays :
          StartForecast(1, days, 1) /\ UNCHANGED <<staffVars, menuVars, customerVars, otherVars>>
    \/ \E rnd \in RandomVals :
          ForecastStep(1, rnd) /\ UNCHANGED <<staffVars, menuVars, customerVars, otherVars>>
    \/ ForecastRespond(1) /\ UNCHANGED <<staffVars, menuVars, customerVars, otherVars>>

SpecStats == InitStats /\ [][NextStats]_vars

-----------------------------------------------------------------------------
(* SpecZones: one forecast request over every history of MaxOrders orders  *)
(* with a guest count, on a server west of, in, or east of UTC, while time *)
(* passes                                                                  *)

ZoneOffsets == {-1, 0, 1}

\* the Tuesdays of HistTimes and the Wednesday after the later one
ZoneHistTimes == HistTimes \cup { (Day0 - 5) * TicksPerDay }

InitZones ==
    /\ orders \in [ 1..MaxOrders -> [ closedAt : ZoneHistTimes, guests : GuestVals \ {0} ] ]
    /\ InitRequestsIn(ZoneOffsets) /\ InitNoStaff /\ InitNoMenu /\ InitNoCustomers

NextZones ==
    \/ \E days \in 1..MaxDays :
          StartForecast(1, days, 1) /\ UNCHANGED <<staffVars, menuVars, customerVars, otherVars>>
    \/ \E rnd \in RandomEnds :
          ForecastStep(1, rnd) /\ UNCHANGED <<staffVars, menuVars, customerVars, otherVars>>
    \/ ForecastRespond(1) /\ UNCHANGED <<staffVars, menuVars, customerVars, otherVars>>
    \/ Tick /\ UNCHANGED <<staffVars, menuVars, customerVars, otherVars>>

SpecZones == InitZones /\ [][NextZones]_vars

-----------------------------------------------------------------------------
(* SpecDays: one forecast request for every valid `days`, or none given,   *)
(* over an empty history and with the random draws in the middle; the      *)
(* handler keeps running until it responds                                 *)

InitDays ==
    /\ orders = <<>>
    /\ InitRequests /\ InitNoStaff /\ InitNoMenu /\ InitNoCustomers

\* an iteration, and the response, of the one request of SpecDays
StepDays ==
    \E rnd \in RandomMid :
        ForecastStep(1, rnd) /\ UNCHANGED <<staffVars, menuVars, customerVars, otherVars>>

RespondDays == ForecastRespond(1) /\ UNCHANGED <<staffVars, menuVars, customerVars, otherVars>>

NextDays ==
    \/ \E days \in {-1} \cup MinDays..MaxForecastDays :
          StartForecast(1, daysOrDefault(days), 1)
              /\ UNCHANGED <<staffVars, menuVars, customerVars, otherVars>>
    \/ StepDays
    \/ RespondDays
    \/ Tick /\ UNCHANGED <<staffVars, menuVars, customerVars, otherVars>>

SpecDays ==
    /\ InitDays /\ [][NextDays]_vars
    /\ WF_vars(StepDays)
    /\ WF_vars(RespondDays)

-----------------------------------------------------------------------------
(* SpecFailure: a forecast request, and a second one after it has ended,   *)
(* either of which may have an upsert fail                                 *)

NextFailure ==
    \/ \E days \in 1..MaxDays :
          StartForecast(1, days, MaxRuns)
              /\ UNCHANGED <<staffVars, menuVars, customerVars, otherVars>>
    \/ \E days \in 1..MaxDays :
          /\ req[1].pc \in {"done", "failed"}
          /\ StartForecast(2, days, MaxRuns)
          /\ UNCHANGED <<staffVars, menuVars, customerVars, otherVars>>
    \/ \E r \in Slots, rnd \in RandomEnds :
          ForecastStep(r, rnd) /\ UNCHANGED <<staffVars, menuVars, customerVars, otherVars>>
    \/ \E r \in Slots :
          ForecastRespond(r) /\ UNCHANGED <<staffVars, menuVars, customerVars, otherVars>>
    \/ \E r \in Slots :
          ForecastFail(r) /\ UNCHANGED <<staffVars, menuVars, customerVars, otherVars>>

SpecFailure == Init /\ [][NextFailure]_vars

-----------------------------------------------------------------------------
(* SpecSchedule: one forecast request, and schedule-optimize requests over *)
(* the rows it has stored so far                                           *)

Roles == {"server", "cook", "SERVER"}

\* staff tables of MaxStaff rows; a member's id is its place in the table
Rosters ==
    { ro \in [ 1..MaxStaff -> [ id : 1..MaxStaff, role : Roles, isActive : BOOLEAN ] ] :
        \A k \in 1..MaxStaff : ro[k].id = k }

\* maxHoursPerEmployee of the request: 0 stands for a request without it
MaxHoursVals == {0, 10, 18}

WeekStarts == { StartTick, AddDays(StartTick, 2) }

InitSchedule ==
    /\ orders \in FewHistories
    /\ staff \in Rosters
    /\ schedule = NoResult
    /\ InitNoShifts
    /\ InitRequests /\ InitNoMenu /\ InitNoCustomers

NextSchedule ==
    \/ \E days \in 1..MaxDays :
          StartForecast(1, days, 1) /\ UNCHANGED <<staffVars, menuVars, customerVars, otherVars>>
    \/ \E rnd \in RandomEnds :
          ForecastStep(1, rnd) /\ UNCHANGED <<staffVars, menuVars, customerVars, otherVars>>
    \/ ForecastRespond(1) /\ UNCHANGED <<staffVars, menuVars, customerVars, otherVars>>
    \/ \E weekStart \in WeekStarts, maxHours \in MaxHoursVals :
          Optimize(weekStart, maxHours) /\ UNCHANGED <<menuVars, customerVars, otherVars>>

SpecSchedule == InitSchedule /\ [][NextSchedule]_vars

-----------------------------------------------------------------------------
(* SpecWeek: two forecast requests of MaxDays days, while time passes,     *)
(* and one schedule-optimize request over the rows stored so far, for two  *)
(* active servers                                                          *)

InitWeek ==
    /\ orders \in FewHistories
    /\ staff = [ k \in 1..2 |-> [ id |-> k, role |-> "server", isActive |-> TRUE ] ]
    /\ schedule = NoResult
    /\ InitNoShifts
    /\ InitRequests /\ InitNoMenu /\ InitNoCustomers

NextWeek ==
    \/ \E r \in Slots :
          StartForecast(r, MaxDays, Cardinality(Slots))
              /\ UNCHANGED <<staffVars, menuVars, customerVars, otherVars>>
    \/ \E r \in Slots, rnd \in RandomEnds :
          ForecastStep(r, rnd) /\ UNCHANGED <<staffVars, menuVars, customerVars, otherVars>>
    \/ \E r \in Slots :
          ForecastRespond(r) /\ UNCHANGED <<staffVars, menuVars, customerVars, otherVars>>
    \/ Tick /\ UNCHANGED <<staffVars, menuVars, customerVars, otherVars>>
    \/ Optimize(StartTick, 0) /\ UNCHANGED <<menuVars, customerVars, otherVars>>

SpecWeek == InitWeek /\ [][NextWeek]_vars

-----------------------------------------------------------------------------
(* SpecStaffing: one schedule-optimize request over every roster of        *)
(* MaxStaff rows and every table of forecast rows for the first MaxDays    *)
(* days of the week, whoever stored them                                   *)

\* predictedCovers of a stored row: none expected, and around the ratios
CoverVals == {0, 20, 21, 41}

\* the row of calendar day d with c covers
ForecastRow(d, c) ==
    [ forecastDate |-> d * TicksPerDay, predictedCovers |-> c,
      confidenceLow |-> c, confidenceHigh |-> c ]

\* tables with at most one row per date
ForecastTables ==
    { { ForecastRow(Day0 + k - 1, pick[k]) : k \in { j \in 1..MaxDays : pick[j] # Null } } :
        pick \in [ 1..MaxDays -> CoverVals \cup {Null} ] }

InitStaffing ==
    /\ orders = <<>>
    /\ now = StartTick
    /\ forecasts \in ForecastTables
    /\ req = [ r \in Slots |-> IdleReq ]
    /\ runs = 0
    /\ tz = 0
    /\ staff \in Rosters
    /\ schedule = NoResult
    /\ InitNoShifts
    /\ InitNoMenu /\ InitNoCustomers

NextStaffing ==
    \E weekStart \in WeekStarts, maxHours \in MaxHoursVals :
        Optimize(weekStart, maxHours) /\ UNCHANGED <<menuVars, customerVars, otherVars>>

SpecStaffing == InitStaffing /\ [][NextStaffing]_vars

-----------------------------------------------------------------------------
(* SpecRegister: registrations into an empty or a seeded staff table, and  *)
(* one schedule-optimize request over a day with a forecast                *)

InitRegister ==
    /\ orders = <<>>
    /\ now = StartTick
    /\ forecasts \in { { ForecastRow(Day0, c) } : c \in CoverVals }
    /\ req = [ r \in Slots |-> IdleReq ]
    /\ runs = 0
    /\ tz = 0
    /\ staff \in { <<>>, SeedStaff }
    /\ schedule = NoResult
    /\ InitNoShifts
    /\ InitNoMenu /\ InitNoCustomers

NextRegister ==
    \/ \E role \in RegisterRoles \cup {NoRole} :
          Register(role) /\ UNCHANGED <<forecastVars, menuVars, customerVars, otherVars>>
    \/ \E maxHours \in MaxHoursVals :
          Optimize(StartTick, maxHours) /\ UNCHANGED <<menuVars, customerVars, otherVars>>

SpecRegister == InitRegister /\ [][NextRegister]_vars

-----------------------------------------------------------------------------
(* SpecLabor: labor-analytics requests over every table of MaxShifts       *)
(* shifts, short and long, with and without actual times and hourly rate   *)

ShiftRoles    == {"server", "cook"}
MinuteVals    == {20, 60}
ActualVals    == {Null, 2}
RateVals      == {Null, 1000}
RevenueVals   == {0, 20000}

InitLabor ==
    /\ shifts \in [ 1..MaxShifts -> [ role : ShiftRoles, scheduledMinutes : MinuteVals,
                                      actualMinutes : ActualVals, hourlyRate : RateVals ] ]
    /\ labor = NoResult
    /\ staff = <<>>
    /\ schedule = NoResult
    /\ orders = <<>>
    /\ InitRequests /\ InitNoMenu /\ InitNoCustomers

NextLabor ==
    \E totalRevenue \in RevenueVals :
        LaborAnalytics(totalRevenue)
            /\ UNCHANGED <<forecastVars, menuVars, customerVars, otherVars>>

SpecLabor == InitLabor /\ [][NextLabor]_vars

-----------------------------------------------------------------------------
(* SpecAnalytics: the analytic operations side by side over one restaurant: *)
(* one forecast request, one schedule-optimize, one menu-engineering, one   *)
(* segments and two at-risk requests, in any order                          *)

SegmentVals == {"Champions", "Lost"}

InitAnalytics ==
    /\ orders \in FewHistories
    /\ InitRequests
    /\ staff = << [ id |-> 1, role |-> "server", isActive |-> TRUE ],
                  [ id |-> 2, role |-> "cook", isActive |-> TRUE ] >>
    /\ schedule = NoResult
    /\ shifts = << [ role |-> "server", scheduledMinutes |-> 60, actualMinutes |-> Null,
                     hourlyRate |-> Null ] >>
    /\ labor = NoResult
    /\ menuItems = << [ id |-> 1, cost |-> 0, isActive |-> TRUE ],
                      [ id |-> 2, cost |-> 500, isActive |-> TRUE ] >>
    /\ orderItems = << [ menuItemId |-> 1, quantity |-> 4, unitPrice |-> 400,
                         isVoid |-> FALSE ] >>
    /\ engineering = NoResult
    /\ response = NoResult
    /\ InitNoInventory /\ InitNoLimiter
    /\ \E seg \in [ 1..2 -> SegmentVals ] :
          customers = { [ id |-> k, restaurantId |-> 1, churnRisk |-> 90,
                          lastVisit |-> Null, rfmSegment |-> seg[k] ] : k \in 1..2 }
    /\ atRisk = NoResult
    /\ atRiskPrev = NoResult
    /\ segments = NoResult

NextAnalytics ==
    \/ \E days \in 1..MaxDays :
          StartForecast(1, days, 1) /\ UNCHANGED <<staffVars, menuVars, customerVars, otherVars>>
    \/ \E rnd \in RandomMid :
          ForecastStep(1, rnd) /\ UNCHANGED <<staffVars, menuVars, customerVars, otherVars>>
    \/ ForecastRespond(1) /\ UNCHANGED <<staffVars, menuVars, customerVars, otherVars>>
    \/ \E maxHours \in MaxHoursVals :
          Optimize(StartTick, maxHours) /\ UNCHANGED <<menuVars, customerVars, otherVars>>
    \/ Engineering /\ UNCHANGED <<forecastVars, staffVars, customerVars, otherVars>>
    \/ Segments(1) /\ UNCHANGED <<forecastVars, staffVars, menuVars, otherVars>>
    \/ AtRisk(1, DefaultMinRisk, DefaultLimit)
          /\ UNCHANGED <<forecastVars, staffVars, menuVars, otherVars>>

SpecAnalytics == InitAnalytics /\ [][NextAnalytics]_vars

-----------------------------------------------------------------------------
(* SpecInventory: counts and waste entries, in any order, over a table of  *)
(* MaxInventory items                                                      *)

StockVals    == {0, 2}
WasteVals    == {1, 3}
UnitCostVals == {0, 150}
WasteCostVals == {0, 500}

\* the bodies of POST /count: one or two entries, for items of the table or
\* for an id that is not in it
CountBodies ==
    LET Entries == [ id : 1..(MaxInventory + 1), quantity : StockVals ] IN
    { <<a>> : a \in Entries } \cup { <<a, b>> : a \in Entries, b \in Entries }

InitInventory ==
    /\ inventory \in [ 1..MaxInventory -> [ currentQuantity : StockVals,
                                             unitCost : UnitCostVals ] ]
    /\ wasteLogs = <<>>
    /\ response = NoResult
    /\ InitNoLimiter
    /\ menuItems = <<>> /\ orderItems = <<>> /\ engineering = NoResult
    /\ orders = <<>>
    /\ InitRequests /\ InitNoStaff /\ InitNoCustomers

NextInventory ==
    \/ \E items \in CountBodies :
          InventoryCount(items)
              /\ UNCHANGED <<forecastVars, staffVars, menuVars, customerVars, httpVars,
                             limiterVars>>
    \/ \E id \in 1..(MaxInventory + 1) \cup {Null}, quantity \in WasteVals,
           cost \in WasteCostVals :
          InventoryWaste(id, quantity, cost)
              /\ UNCHANGED <<forecastVars, staffVars, menuVars, customerVars, httpVars,
                             limiterVars>>

SpecInventory == InitInventory /\ [][NextInventory]_vars

-----------------------------------------------------------------------------
(* SpecLimiter: MaxCalls concurrent calls of checkRateLimit on one key,    *)
(* any Redis command of which may fail, while time passes                  *)

InitLimiter ==
    /\ InitNoLimiter
    /\ InitNoInventory
    /\ response = NoResult
    /\ menuItems = <<>> /\ orderItems = <<>> /\ engineering = NoResult
    /\ orders = <<>>
    /\ InitRequests /\ InitNoStaff /\ InitNoCustomers

LimiterRest == <<orders, forecasts, req, runs, tz, staffVars, menuVars, customerVars,
                 httpVars, inventoryVars>>

NextLimiter ==
    \/ \E c \in CallSlots : RateIncr(c) /\ UNCHANGED <<now, LimiterRest>>
    \/ \E c \in CallSlots : RateIncrFail(c) /\ UNCHANGED <<now, LimiterRest>>
    \/ \E c \in CallSlots : RateExpire(c) /\ UNCHANGED <<now, LimiterRest>>
    \/ \E c \in CallSlots : RateExpireFail(c) /\ UNCHANGED <<now, LimiterRest>>
    \/ Tick /\ UNCHANGED <<staffVars, menuVars, customerVars, otherVars>>

SpecLimiter == InitLimiter /\ [][NextLimiter]_vars

-----------------------------------------------------------------------------
(* SpecMenu: one menu-engineering request over every menu of MaxItems items *)
(* and every MaxOrderItems order items                                      *)

CostVals == {0, 500}         \* cents; 0 also stands for a missing cost
QtyVals  == {1, 4}
PriceVals == {400}           \* cents

\* a menu item's id is its place in the table; the last item may be inactive
MenuRows(k) == [ id : {k}, cost : CostVals,
                 isActive : IF k = MaxItems THEN BOOLEAN ELSE {TRUE} ]

\* order items on sale, and one voided order item
OrderItemRows ==
    [ menuItemId : 1..MaxItems, quantity : QtyVals, unitPrice : PriceVals, isVoid : {FALSE} ]
    \cup { [ menuItemId |-> 1, quantity |-> 4, unitPrice |-> 400, isVoid |-> TRUE ] }

InitMenu ==
    /\ menuItems \in { m \in [ 1..MaxItems -> UNION { MenuRows(k) : k \in 1..MaxItems } ] :
                          \A k \in 1..MaxItems : m[k] \in MenuRows(k) }
    /\ orderItems \in [ 1..MaxOrderItems -> OrderItemRows ]
    /\ engineering = NoResult
    /\ response = NoResult
    /\ InitNoInventory /\ InitNoLimiter
    /\ orders = <<>>
    /\ InitRequests /\ InitNoStaff /\ InitNoCustomers

NextMenu ==
    Engineering /\ UNCHANGED <<forecastVars, staffVars, customerVars, otherVars>>

SpecMenu == InitMenu /\ [][NextMenu]_vars

-----------------------------------------------------------------------------
(* SpecIndices: one menu-engineering request over every menu of MaxItems    *)
(* items whose sales are within a percent of each other                     *)

CloseQtyVals == {399, 400, 401}

CloseOrderItemRows ==
    [ menuItemId : 1..MaxItems, quantity : CloseQtyVals, unitPrice : PriceVals, isVoid : {FALSE} ]

InitIndices ==
    /\ menuItems \in { m \in [ 1..MaxItems -> UNION { MenuRows(k) : k \in 1..MaxItems } ] :
                          \A k \in 1..MaxItems : m[k] \in MenuRows(k) }
    /\ orderItems \in [ 1..MaxOrderItems -> CloseOrderItemRows ]
    /\ engineering = NoResult
    /\ response = NoResult
    /\ InitNoInventory /\ InitNoLimiter
    /\ orders = <<>>
    /\ InitRequests /\ InitNoStaff /\ InitNoCustomers

SpecIndices == InitIndices /\ [][NextMenu]_vars

-----------------------------------------------------------------------------
(* SpecCustomers: one at-risk request over every table of MaxCustomers     *)
(* customers of two restaurants                                            *)

Restaurants == {1, 2}
RiskVals    == {Null, 30, 50, 90}
MinRiskVals == {DefaultMinRisk, 90}
LimitVals   == {1, 2, DefaultLimit}

InitCustomers ==
    /\ \E t \in [ 1..MaxCustomers -> [ restaurantId : Restaurants, churnRisk : RiskVals ] ] :
          customers = { [ id |-> k, restaurantId |-> t[k].restaurantId,
                          churnRisk |-> t[k].churnRisk, lastVisit |-> Null ] :
                        k \in 1..MaxCustomers }
    /\ atRisk = NoResult
    /\ atRiskPrev = NoResult
    /\ segments = NoResult
    /\ orders = <<>>
    /\ InitRequests /\ InitNoStaff /\ InitNoMenu

NextCustomers ==
    \E restaurantId \in Restaurants, minRisk \in MinRiskVals, limit \in LimitVals :
        AtRisk(restaurantId, minRisk, limit) /\ UNCHANGED <<forecastVars, staffVars, menuVars, otherVars>>

SpecCustomers == InitCustomers /\ [][NextCustomers]_vars

-----------------------------------------------------------------------------
(* SpecChurnAction: one at-risk request over every table of MaxCustomers    *)
(* customers of one restaurant, around the thresholds of the action rules   *)

ActionRiskVals == {59, 60, 79, 80}

\* no visit, a visit just now, one 61 days ago less a tick, one 61 days ago
LastVisits == { Null, StartTick, AddDays(StartTick, -61) + 1, AddDays(StartTick, -61) }

InitChurnAction ==
    /\ \E t \in [ 1..MaxCustomers -> [ churnRisk : ActionRiskVals, lastVisit : LastVisits ] ] :
          customers = { [ id |-> k, restaurantId |-> 1, churnRisk |-> t[k].churnRisk,
                          lastVisit |-> t[k].lastVisit ] : k \in 1..MaxCustomers }
    /\ atRisk = NoResult
    /\ atRiskPrev = NoResult
    /\ segments = NoResult
    /\ orders = <<>>
    /\ InitRequests /\ InitNoStaff /\ InitNoMenu

NextChurnAction ==
    \E minRisk \in {0, DefaultMinRisk} :
        /\ atRisk = NoResult
        /\ AtRisk(1, minRisk, DefaultLimit)
        /\ UNCHANGED <<forecastVars, staffVars, menuVars, otherVars>>

SpecChurnAction == InitChurnAction /\ [][NextChurnAction]_vars

-----------------------------------------------------------------------------
(* SpecHttp: requests to the by-id routes, for entities that exist and for *)
(* one that does not, with valid and invalid parameters                    *)

DaysVals  == {Null, 6, 7, 91, 366}
PatchVals == {Null, 0, 500}

InitHttp ==
    /\ menuItems \in { m \in [ 1..MaxItems -> [ id : 1..MaxItems, cost : CostVals,
                                                isActive : {TRUE} ] ] :
                          \A k \in 1..MaxItems : m[k].id = k }
    /\ orderItems = <<>>
    /\ engineering = NoResult
    /\ response = NoResult
    /\ InitNoInventory /\ InitNoLimiter
    /\ staff = [ k \in 1..MaxStaff |-> [ id |-> k, role |-> "server", isActive |-> TRUE ] ]
    /\ schedule = NoResult
    /\ InitNoShifts
    /\ customers = { [ id |-> 1, restaurantId |-> 1, churnRisk |-> 50, lastVisit |-> Null ] }
    /\ atRisk = NoResult
    /\ atRiskPrev = NoResult
    /\ segments = NoResult
    /\ orders \in FewHistories
    /\ now = StartTick
    /\ forecasts = {}
    /\ req = [ r \in Slots |-> IdleReq ]
    /\ runs = 0
    /\ tz = 0

\* what no by-id route touches
HttpRest == <<now, forecasts, req, runs, tz, schedule, shifts, labor, orderItems, engineering,
              atRisk, atRiskPrev, segments, inventory, wasteLogs, rateKey, calls>>

NextHttp ==
    \/ \E id \in 1..(MaxItems + 1), days \in DaysVals :
          MenuItemPerformance(id, days) /\ UNCHANGED HttpRest
    \/ \E id \in 1..(MaxItems + 1), body \in [ price : PatchVals, cost : PatchVals ] :
          MenuItemPatch(id, body) /\ UNCHANGED HttpRest
    \/ \E id \in 1..(MaxStaff + 1), days \in DaysVals :
          StaffPerformance(id, days) /\ UNCHANGED HttpRest
    \/ \E id \in 1..2 : CustomerById(id) /\ UNCHANGED HttpRest
    \/ \E id \in 1..3 : OrderById(id) /\ UNCHANGED HttpRest

SpecHttp == InitHttp /\ [][NextHttp]_vars

-----------------------------------------------------------------------------
(* Properties of the forecaster *)

Triple(x) == <<x.predictedCovers, x.confidenceLow, x.confidenceHigh>>

\* the rows stored for the calendar date of instant t
RowsOfDate(rows, t) == { row \in rows : DayOf(row.forecastDate) = DayOf(t) }

\* request r has just run one iteration of its loop
Stepped(r) == req[r].pc = "loop" /\ req'[r].pc = "loop" /\ req'[r].i = req[r].i + 1

LastWritten(r) == req'[r].written[Len(req'[r].written)]

\* C2: whatever runs were made, at whatever time of day, the table holds at most
\* one row per calendar date; an upsert leaves exactly one row for its date,
\* carrying the values just written, and leaves the rows of all other dates alone
\* (so each row carries the values of the latest run that covered its date).
C2_OneRowPerDateLatestWins ==
    [][ /\ \A a, b \in forecasts' :
              DayOf(a.forecastDate) = DayOf(b.forecastDate) => a = b
        /\ \A r \in Slots : Stepped(r) =>
              LET w == LastWritten(r) IN
              /\ Cardinality(RowsOfDate(forecasts', w.forecastDate)) = 1
              /\ \A row \in RowsOfDate(forecasts', w.forecastDate) : Triple(row) = Triple(w)
              /\ forecasts' \ RowsOfDate(forecasts', w.forecastDate)
                    = forecasts \ RowsOfDate(forecasts, w.forecastDate) ]_vars

\* two runs started at different times of the same day have both written the
\* same calendar date, with different values
C2_Witness ==
    \E k \in 1..Len(req[1].written), m \in 1..Len(req[2].written) :
        /\ req[1].written[k].forecastDate # req[2].written[m].forecastDate
        /\ DayOf(req[1].written[k].forecastDate) = DayOf(req[2].written[m].forecastDate)
        /\ Triple(req[1].written[k]) # Triple(req[2].written[m])
        /\ Cardinality(RowsOfDate(forecasts, req[1].written[k].forecastDate)) = 1

BothDone == runs = 2 /\ \A r \in Slots : req[r].pc = "done"

C4_ConfidenceBand ==
    \A r \in Slots : \A k \in 1..Len(req[r].predictions) :
        LET p == req[r].predictions[k] IN
        /\ 0 <= p.confidenceLow
        /\ p.confidenceLow <= p.predictedCovers
        /\ p.predictedCovers <= p.confidenceHigh

\* a returned prediction whose lower bound was floored at 0: the weekday's
\* standard deviation is large against its mean
C4_Witness ==
    /\ req[1].pc = "done"
    /\ \E k \in 1..Len(req[1].predictions) :
          LET p  == req[1].predictions[k]
              st == stats(req[1].dowMeans, p.dayOfWeek)
          IN  /\ p.dayOfWeek \in DOMAIN req[1].dowMeans
              /\ p.confidenceLow = 0
              /\ p.predictedCovers > 0
              /\ 2 * p.predictedCovers * Scale < 3 * st.std

-----------------------------------------------------------------------------
(* Properties of the menu-engineering analysis *)

Analysed == engineering.kind = "engineering"

Labels == {"Star", "Plowhorse", "Puzzle", "Dog"}

\* the records of the analysis with a given label
Labelled(label) ==
    { k \in 1..Len(engineering.analysis) : engineering.analysis[k].classification = label }

\* the order items of the range that are not void, and what they add up to
SoldRows      == { k \in DOMAIN orderItems : orderItems[k].isVoid = FALSE }
SoldIds       == { orderItems[k].menuItemId : k \in SoldRows }
TotalQuantity == SumSet(SoldRows, [ k \in SoldRows |-> orderItems[k].quantity ])
TotalProfit   ==
    SumSet(SoldRows, [ k \in SoldRows |->
        (orderItems[k].unitPrice - menuItems[orderItems[k].menuItemId].cost)
            * orderItems[k].quantity ])

\* the rational x equals n / d  (d > 0)
RatEquals(x, n, d) == x.den > 0 /\ x.num * d = n * x.den

\* C5: every record of the analysis carries one of the four labels, there is
\* one record per active menu item, and the four counts add up to the number
\* of records.
C5_CountsAddUp ==
    Analysed =>
        /\ \A k \in 1..Len(engineering.analysis) :
              engineering.analysis[k].classification \in Labels
        /\ Len(engineering.analysis)
              = Cardinality({ k \in DOMAIN menuItems : menuItems[k].isActive })
        /\ engineering.summary.starCount + engineering.summary.plowhorseCount
              + engineering.summary.puzzleCount + engineering.summary.dogCount
              = Len(engineering.analysis)

\* an analysis of three items that has a Dog and two other labels
C5_Witness ==
    /\ Analysed
    /\ Len(engineering.analysis) = 3
    /\ engineering.summary.dogCount = 1
    /\ engineering.summary.plowhorseCount = 1
    /\ engineering.summary.puzzleCount = 1

\* C6: the label is the quadrant of the two indices around 1, an index of
\* exactly 1 counting as high.
C6_QuadrantRule ==
    Analysed =>
        \A k \in 1..Len(engineering.analysis) :
            LET a       == engineering.analysis[k]
                popHigh == a.popularity.num >= a.popularity.den
                proHigh == a.profitability.num >= a.profitability.den
            IN  /\ a.popularity.den > 0 /\ a.profitability.den > 0
                /\ (popHigh /\ proHigh)   => a.classification = "Star"
                /\ (popHigh /\ ~proHigh)  => a.classification = "Plowhorse"
                /\ (~popHigh /\ proHigh)  => a.classification = "Puzzle"
                /\ (~popHigh /\ ~proHigh) => a.classification = "Dog"

\* two sold items with the same quantity and profit: both indices are
\* exactly 1 and both are Stars
C6_Witness ==
    /\ Analysed
    /\ Cardinality(SoldIds) = 2
    /\ \E k \in 1..Len(engineering.analysis) :
          LET a == engineering.analysis[k] IN
          /\ a.popularity.num = a.popularity.den
          /\ a.profitability.num = a.profitability.den
          /\ a.classification = "Star"

\* the indices of every record are quantity / avgQuantity and profit / avgProfit
IndicesAreRatios ==
    \A k \in 1..Len(engineering.analysis) :
        LET a == engineering.analysis[k] IN
        /\ a.popularity.den > 0 /\ a.profitability.den > 0
        /\ a.popularity.num * engineering.avgQuantity.num
              = a.quantitySold * engineering.avgQuantity.den * a.popularity.den
        /\ a.profitability.num * engineering.avgProfit.num
              = a.profit * engineering.avgProfit.den * a.profitability.den

Unsold == { k \in 1..Len(engineering.analysis) : engineering.analysis[k].id \notin SoldIds }

Messages(about) ==
    { m \in 1..Len(engineering.recommendations) : engineering.recommendations[m].about = about }

\* there is exactly one message of the kind when the label occurs, none
\* otherwise, and it names a record of that label whose score is the least
OneMessageFor(about, label, score) ==
    /\ Cardinality(Messages(about)) = IF Labelled(label) = {} THEN 0 ELSE 1
    /\ \A m \in Messages(about) :
          \E k \in Labelled(label) :
              /\ engineering.analysis[k].id = engineering.recommendations[m].name
              /\ \A j \in Labelled(label) : score[k] <= score[j]

\* C9: between one and three messages: the removal message names a Dog of
\* lowest profit and is there exactly when there is a Dog; the portion/price
\* message names a Plowhorse of highest quantity sold, exactly when there is a
\* Plowhorse; the visibility message names a Puzzle of highest profit, exactly
\* when there is a Puzzle; the balanced message is there, alone, exactly when
\* there is no Dog, Plowhorse or Puzzle.
C9_Recommendations ==
    Analysed =>
        LET records    == 1..Len(engineering.analysis)
            profit     == [ k \in records |-> engineering.analysis[k].profit ]
            lessProfit == [ k \in records |-> -engineering.analysis[k].profit ]
            lessSold   == [ k \in records |-> -engineering.analysis[k].quantitySold ]
            actionable == Labelled("Dog") \cup Labelled("Plowhorse") \cup Labelled("Puzzle")
        IN  /\ Len(engineering.recommendations) \in 1..3
            /\ OneMessageFor("remove", "Dog", profit)
            /\ OneMessageFor("reprice", "Plowhorse", lessSold)
            /\ OneMessageFor("feature", "Puzzle", lessProfit)
            /\ Cardinality(Messages("balanced")) = IF actionable = {} THEN 1 ELSE 0
            /\ Messages("balanced") # {} => Len(engineering.recommendations) = 1

\* two Dogs, the first of them not the one of lowest profit, and the removal
\* message names the second
C9_Witness ==
    /\ Analysed
    /\ \E j, k \in Labelled("Dog") :
          /\ j < k
          /\ engineering.analysis[k].profit < engineering.analysis[j].profit
          /\ \E m \in Messages("remove") :
                engineering.recommendations[m].name = engineering.analysis[k].id

-----------------------------------------------------------------------------
(* Properties of the schedule optimizer *)

\* C1: in the result of a schedule-optimize run no staff member's hours in
\* staffUtilization exceed maxHoursPerEmployee (40 when the request gives none).
C1_HoursWithinCap ==
    schedule.kind = "schedule" =>
        \A id \in DOMAIN schedule.staffUtilization :
            schedule.staffUtilization[id] <= EffectiveMaxHours(schedule.maxHoursPerEmployee)

-----------------------------------------------------------------------------
(* Properties of the at-risk ranking *)

\* C10: the ranking returns only customers of the requested restaurant whose
\* churnRisk is at least minRisk, at most `limit` of them, none twice, and no
\* returned customer is followed by one of strictly higher churnRisk.
C10_RankedAtRisk ==
    atRisk.kind = "atRisk" =>
        LET found == atRisk.customers IN
        /\ Len(found) <= atRisk.limit
        /\ \A k \in 1..Len(found) :
              /\ found[k] \in customers
              /\ found[k].restaurantId = atRisk.restaurantId
              /\ found[k].churnRisk # Null
              /\ found[k].churnRisk >= atRisk.minRisk
        /\ \A j, k \in 1..Len(found) :
              j < k => /\ found[j].id # found[k].id
                       /\ found[j].churnRisk >= found[k].churnRisk

\* three customers of the restaurant are at risk, with different churnRisk;
\* the limit of 2 cut the list, which begins with the highest
C10_Witness ==
    /\ atRisk.kind = "atRisk"
    /\ atRisk.limit = 2
    /\ Len(atRisk.customers) = 2
    /\ atRisk.customers[1].churnRisk > atRisk.customers[2].churnRisk
    /\ Cardinality({ c \in customers : atRiskWhere(c, atRisk.restaurantId, atRisk.minRisk) }) = 3

\* the customers an at-risk response lists
Returned(answer) == { answer.customers[k].id : k \in 1..Len(answer.customers) }

\* C11: of two at-risk requests for the same restaurant with the same limit
\* over the same stored customers, the one with the higher minRisk returns a
\* subset of the customers the other returns.
C11_HigherMinRiskSubset ==
    (atRisk.kind = "atRisk" /\ atRiskPrev.kind = "atRisk"
        /\ atRisk.restaurantId = atRiskPrev.restaurantId
        /\ atRisk.limit = atRiskPrev.limit) =>
        /\ atRisk.minRisk > atRiskPrev.minRisk => Returned(atRisk) \subseteq Returned(atRiskPrev)
        /\ atRiskPrev.minRisk > atRisk.minRisk => Returned(atRiskPrev) \subseteq Returned(atRisk)

\* C12: each returned customer carries the number of whole days since its last
\* visit (none without a recorded visit) and the action of the first rule that
\* matches: churnRisk >= 0.8 the urgent win-back offer, else churnRisk >= 0.6
\* the re-engagement email, else more than 60 days since the last visit the
\* win-back list, else (also without a recorded visit) monitor only.
C12_ChurnActionFirstMatch ==
    atRisk.kind = "atRisk" =>
        \A k \in 1..Len(atRisk.enriched) :
            LET c    == atRisk.customers[k]
                x    == atRisk.enriched[k]
                days == x.daysSinceLastVisit
            IN  /\ x.id = c.id
                /\ c.lastVisit = Null <=> days = Null
                /\ c.lastVisit # Null =>
                      /\ days * TicksPerDay <= now - c.lastVisit
                      /\ now - c.lastVisit < (days + 1) * TicksPerDay
                /\ c.churnRisk >= 80 =>
                      x.recommendedAction = "urgent win-back offer with discount"
                /\ (c.churnRisk < 80 /\ c.churnRisk >= 60) =>
                      x.recommendedAction = "re-engagement email"
                /\ (c.churnRisk < 60 /\ days # Null /\ days > 60) =>
                      x.recommendedAction = "add to win-back list"
                /\ (c.churnRisk < 60 /\ (days = Null \/ days <= 60)) =>
                      x.recommendedAction = "monitor only"

\* one response with a customer at exactly 0.8 (urgent), one below 0.6 whose
\* last visit was 61 days ago (win-back list) and one below 0.6 whose last
\* visit was a tick less than 61 days ago (60 whole days: monitor only)
C12_Witness ==
    /\ atRisk.kind = "atRisk"
    /\ \E i, j, k \in 1..Len(atRisk.enriched) :
          /\ atRisk.customers[i].churnRisk = 80
          /\ atRisk.enriched[i].recommendedAction = "urgent win-back offer with discount"
          /\ atRisk.customers[j].churnRisk = 59
          /\ atRisk.enriched[j].daysSinceLastVisit = 61
          /\ atRisk.enriched[j].recommendedAction = "add to win-back list"
          /\ atRisk.customers[k].churnRisk = 59
          /\ atRisk.enriched[k].daysSinceLastVisit = 60
          /\ atRisk.enriched[k].recommendedAction = "monitor only"

\* C13: a run for N days (1..14, 7 when the request names none) goes on until
\* it responds; it has then returned exactly N predictions, the k-th for the
\* k-th day after the day of the run (so in strictly ascending date order),
\* and has made exactly one upsert per prediction, for that prediction's date.
C13_ExactlyNPredictions ==
    /\ [](\A r \in Slots :
            /\ Len(req[r].written) = Len(req[r].predictions)
            /\ \A k \in 1..Len(req[r].predictions) :
                  /\ req[r].predictions[k].date = DayOf(req[r].today) + k
                  /\ DayOf(req[r].written[k].forecastDate) = req[r].predictions[k].date
            /\ req[r].pc = "done" =>
                  /\ req[r].days \in MinDays..MaxForecastDays
                  /\ Len(req[r].predictions) = req[r].days)
    /\ \A r \in Slots : (req[r].pc = "loop") ~> (req[r].pc = "done")

\* a run started in the middle of a day has responded with 14 predictions
C13_Witness ==
    /\ req[1].pc = "done"
    /\ req[1].today > StartTick
    /\ req[1].days = MaxForecastDays
    /\ Len(req[1].predictions) = MaxForecastDays
    /\ Len(req[1].written) = MaxForecastDays

-----------------------------------------------------------------------------
(* The history a run is meant to use, taken from the orders table itself *)

\* the closed orders of the 90 days before the run of request r
RefHistory(r) ==
    { k \in DOMAIN orders : orders[k].closedAt >= req[r].today - HistoryDays * TicksPerDay }

\* the calendar days that have such orders, and the guests of each day
RefDays(r) == { DayOf(orders[k].closedAt) : k \in RefHistory(r) }
RefTotal(r, d) ==
    SumSet({ k \in RefHistory(r) : DayOf(orders[k].closedAt) = d },
           [ k \in DOMAIN orders |-> orders[k].guests ])

\* the history days on the weekday of calendar day `date`
RefSameWeekday(r, date) == { d \in RefDays(r) : getDay(d) = getDay(date) }

\* mean and population standard deviation of the totals of days ds, in fixed point
RefStats(r, ds) ==
    LET n   == Cardinality(ds)
        tot == [ d \in ds |-> RefTotal(r, d) ]
        sum == SumSet(ds, tot)
        sq  == SumSet(ds, [ d \in ds |-> (n * tot[d] - sum) * (n * tot[d] - sum) ])
    IN  [ mean |-> (sum * Scale) \div n,
          std  |-> Sqrt((sq * Scale * Scale) \div (n * n * n)) ]

\* p, a whole number of covers, is the rounding of a value within std / 4 of mean
WithinQuarterStd(p, st) ==
    LET gap  == p * Scale - st.mean
        room == st.std \div 4 + Scale \div 2 + 2
    IN  gap <= room /\ -gap <= room

\* C14: the series of a run has one entry per calendar day with closed orders
\* in the trailing 90 days, the sum of their guest counts; and each predicted
\* value lies within 0.25 std of mean (before rounding), mean and std being
\* those of the totals of the history days on the weekday of the target date.
C14_SameWeekdayStatistics ==
    \A r \in Slots : req[r].pc # "idle" =>
        /\ DOMAIN req[r].dailyCovers = RefDays(r)
        /\ \A d \in RefDays(r) : req[r].dailyCovers[d] = RefTotal(r, d)
        /\ \A k \in 1..Len(req[r].written) :
              LET ds == RefSameWeekday(r, req[r].predictions[k].date) IN
              ds # {} => WithinQuarterStd(req[r].written[k].predictedCovers, RefStats(r, ds))

\* C15: a prediction for a target date on whose weekday the trailing 90 days
\* have no closed order (in particular when they have none at all) comes from
\* mean 50 and std 10: the predicted value is the rounding of a value within
\* 2.5 of 50, confidenceLow is predictedCovers - 15 and confidenceHigh is
\* predictedCovers + 15.
C15_DefaultsWithoutHistory ==
    \A r \in Slots : \A k \in 1..Len(req[r].predictions) :
        LET p == req[r].predictions[k] IN
        RefSameWeekday(r, p.date) = {} =>
            /\ WithinQuarterStd(p.predictedCovers,
                                [ mean |-> DefaultMean * Scale, std |-> DefaultStd * Scale ])
            /\ 2 * p.confidenceLow = 2 * p.predictedCovers - 3 * DefaultStd
            /\ 2 * p.confidenceHigh = 2 * p.predictedCovers + 3 * DefaultStd

\* the stored row a day of the recommendation was made from
RowOfDay(rec) == CHOOSE f \in forecasts : DayOf(f.forecastDate) = rec.date

\* C16: each day of the recommendation reports the stored predictedCovers c
\* of its forecast row as expectedCovers, also when c = 0, and its target
\* headcount is servers = ceil(c / 20), cooks = ceil(c / 40), total =
\* servers + cooks + 1.
C16_HeadcountFromStoredCovers ==
    schedule.kind = "schedule" =>
        \A k \in 1..Len(schedule.recommendations) :
            LET rec == schedule.recommendations[k]
                c   == RowOfDay(rec).predictedCovers
            IN  /\ rec.expectedCovers = c
                /\ (rec.staffing.servers - 1) * CoversPerServer < c
                /\ c <= rec.staffing.servers * CoversPerServer
                /\ (rec.staffing.cooks - 1) * CoversPerCook < c
                /\ c <= rec.staffing.cooks * CoversPerCook
                /\ rec.staffing.total = rec.staffing.servers + rec.staffing.cooks + 1

\* the shifts of a role suggested on day k, and the hours a staff member has
\* been given on the days before day k
ShiftsOfRole(k, role) ==
    { m \in 1..Len(schedule.recommendations[k].suggestedShifts) :
        schedule.recommendations[k].suggestedShifts[m].role = role }
HoursBefore(k, id) ==
    SumSeq([ j \in 1..(k - 1) |->
               ShiftHours * Cardinality({ m \in 1..Len(schedule.recommendations[j].suggestedShifts) :
                              schedule.recommendations[j].suggestedShifts[m].staffId = id }) ], 1)

\* the active staff of a role whom the cap still allows a shift on day k
Eligible(k, role) ==
    { m \in 1..Len(staff) :
        /\ staff[m].isActive
        /\ staff[m].role = role
        /\ HoursBefore(k, staff[m].id) + ShiftHours
              <= EffectiveMaxHours(schedule.maxHoursPerEmployee) }

\* C17: on each day, the shifts suggested for servers number min(servers
\* target, eligible servers) and those for cooks min(cooks target, eligible
\* cooks).
C17_ShiftsMatchEligibleStaff ==
    schedule.kind = "schedule" =>
        \A k \in 1..Len(schedule.recommendations) :
            LET rec == schedule.recommendations[k] IN
            /\ Cardinality(ShiftsOfRole(k, "server"))
                  = Min(rec.staffing.servers, Cardinality(Eligible(k, "server")))
            /\ Cardinality(ShiftsOfRole(k, "cook"))
                  = Min(rec.staffing.cooks, Cardinality(Eligible(k, "cook")))

\* C18: the at-risk summary's avgChurnRisk is a number, never NaN, and is 0
\* when no customer is returned.
C18_AverageOfNothingIsZero ==
    atRisk.kind = "atRisk" =>
        /\ ~atRisk.summary.avgChurnRisk.nan
        /\ atRisk.summary.total = 0 => atRisk.summary.avgChurnRisk = Num(0)

-----------------------------------------------------------------------------
(* Properties of the by-id routes *)

\* the parameters of a request that its route's schema rejects
BadFields(request) ==
    IF request.route = "GET menu/:id/performance"
    THEN IF request.days # Null /\ (request.days < 7 \/ request.days > 365)
         THEN {"days"} ELSE {}
    ELSE IF request.route = "GET staff/:id/performance"
    THEN IF request.days # Null /\ (request.days < 7 \/ request.days > 90)
         THEN {"days"} ELSE {}
    ELSE IF request.route = "PATCH menu/:id"
    THEN { key \in {"price", "cost"} : request.body[key] # Null /\ request.body[key] <= 0 }
    ELSE {}

\* the entity a request names does not exist
NoSuchEntity(request) ==
    IF request.route \in {"GET menu/:id/performance", "PATCH menu/:id"}
    THEN request.id > Len(menuItems)
    ELSE IF request.route = "GET staff/:id/performance" THEN request.id > Len(staff)
    ELSE IF request.route = "GET customers/:id" THEN \A c \in customers : c.id # request.id
    ELSE request.id > Len(orders)

\* C19: a request with a parameter its schema rejects is answered 400 with
\* success false and one (field, message) detail per rejected parameter, and
\* the step that answers it changes no table; a valid request for a menu item,
\* staff member, customer or order that does not exist is answered 404 with
\* success false.
C19_ValidationAndNotFound ==
    /\ [](response.kind = "http" =>
            LET bad == BadFields(response.request) IN
            /\ bad # {} =>
                  /\ response.status = 400
                  /\ response.success = FALSE
                  /\ Len(response.details) = Cardinality(bad)
                  /\ { response.details[k].field : k \in 1..Len(response.details) } = bad
            /\ (bad = {} /\ NoSuchEntity(response.request)) =>
                  /\ response.status = 404
                  /\ response.success = FALSE)
    /\ [][ (response'.kind = "http" /\ BadFields(response'.request) # {}) =>
              /\ menuItems' = menuItems /\ staff' = staff
              /\ customers' = customers /\ orders' = orders ]_vars

\* a PATCH of an existing menu item with a price and a cost of 0 was refused
\* with two details
C19_Witness ==
    /\ response.kind = "http"
    /\ response.request.route = "PATCH menu/:id"
    /\ response.request.id <= Len(menuItems)
    /\ response.status = 400
    /\ Len(response.details) = 2

-----------------------------------------------------------------------------
(* Properties of the labor analytics *)

\* the minutes, and the minutes * rate, of all the shifts of the range
AllMinutes == SumSet(DOMAIN shifts, [ k \in DOMAIN shifts |-> shiftMinutes(shifts[k]) ])
AllRateMinutes ==
    SumSet(DOMAIN shifts, [ k \in DOMAIN shifts |-> shiftMinutes(shifts[k]) * rateOf(shifts[k]) ])

\* C20: the labor totals are roundings of sums of unrounded per-shift values:
\* totalHours is the hours of all shifts rounded to a tenth, totalCost their
\* cost rounded to a cent, and the percentage and the per-hour figure are
\* derived from the unrounded totals.
C20_TotalsRoundedOnce ==
    labor.kind = "labor" =>
        /\ labor.totalHours = MathRound(10 * AllMinutes, 60)
        /\ labor.totalCost = MathRound(AllRateMinutes, 60)
        /\ labor.totalRevenue > 0 =>
              labor.laborCostPercent = MathRound(1000 * AllRateMinutes, 60 * labor.totalRevenue)
        /\ AllMinutes > 0 =>
              labor.salesPerLaborHour = MathRound(60 * labor.totalRevenue, AllMinutes)

-----------------------------------------------------------------------------
(* Properties of the analytic operations taken together *)

\* the tables
Persisted == <<orders, forecasts, staff, shifts, menuItems, orderItems, customers>>

\* C21: a step in which a schedule-optimize, menu-engineering, segments or
\* at-risk request is answered leaves every table as it was, and a step that
\* changes a table is an iteration of a forecast run, which changes the
\* demand-forecast rows only.
C21_OnlyForecastsWrite ==
    [][ /\ ( \/ schedule' # schedule \/ engineering' # engineering
             \/ segments' # segments \/ atRisk' # atRisk \/ atRiskPrev' # atRiskPrev )
            => Persisted' = Persisted
        /\ Persisted' # Persisted =>
              /\ \E r \in Slots : req[r].pc = "loop" /\ req'[r].i = req[r].i + 1
              /\ <<orders, staff, shifts, menuItems, orderItems, customers>>'
                   = <<orders, staff, shifts, menuItems, orderItems, customers>> ]_vars

\* C21 witness: every kind of request has been answered, the schedule with
\* shifts suggested from rows a forecast run stored
C21_Witness ==
    /\ schedule.kind = "schedule" /\ schedule.totalShiftsRecommended > 0
    /\ engineering.kind = "engineering"
    /\ segments.kind = "segments" /\ segments.totalCustomers > 0
    /\ atRisk.kind = "atRisk" /\ Len(atRisk.customers) > 0
    /\ forecasts # {}

-----------------------------------------------------------------------------
(* Properties of the reported indices *)

\* C22: in every analysis record the classification is the quadrant of the
\* popularityIndex and profitabilityIndex reported in that record: a record
\* reporting popularityIndex >= 1.00 is not a Puzzle or a Dog, and one
\* reporting profitabilityIndex >= 1.00 is not a Plowhorse or a Dog.
C22_LabelAgreesWithReportedIndices ==
    engineering.kind = "engineering" =>
        \A k \in DOMAIN engineering.analysis :
            LET a == engineering.analysis[k] IN
            /\ a.popularityIndex >= 100 => a.classification \notin {"Puzzle", "Dog"}
            /\ a.profitabilityIndex >= 100 => a.classification \notin {"Plowhorse", "Dog"}
            /\ a.classification = classification(Rat(a.popularityIndex, 100),
                                                  Rat(a.profitabilityIndex, 100))

-----------------------------------------------------------------------------
(* Properties of the stored rows against the returned predictions *)

\* the row of the table agrees with a returned prediction
SameAsReturned(row, prediction) ==
    /\ DayOf(row.forecastDate) = prediction.date
    /\ row.predictedCovers = prediction.predictedCovers
    /\ row.confidenceLow = prediction.confidenceLow
    /\ row.confidenceHigh = prediction.confidenceHigh

\* C23: at every iteration of a run the row stored for the date holds the
\* predictedCovers, confidenceLow and confidenceHigh of the prediction pushed
\* for that date; when the only run has responded every returned prediction
\* has its row; and every stored row has
\* 0 <= confidenceLow <= predictedCovers <= confidenceHigh.
C23_StoredEqualsReturned ==
    /\ [](\A row \in forecasts :
            /\ 0 <= row.confidenceLow
            /\ row.confidenceLow <= row.predictedCovers
            /\ row.predictedCovers <= row.confidenceHigh)
    /\ [](\A r \in Slots : (runs = 1 /\ req[r].pc = "done") =>
            \A k \in 1..Len(req[r].predictions) :
                \E row \in forecasts : SameAsReturned(row, req[r].predictions[k]))
    /\ [][ \A r \in Slots : Stepped(r) =>
              LET pushed == req'[r].predictions[Len(req'[r].predictions)] IN
              \A row \in RowsOfDate(forecasts', LastWritten(r).forecastDate) :
                  SameAsReturned(row, pushed) ]_vars

\* C23 witness: a second run has responded after overwriting a row of the
\* first with other values, and its predictions are the rows of the table
C23_Witness ==
    /\ BothDone
    /\ \E k \in 1..Len(req[1].written), m \in 1..Len(req[2].written) :
          /\ DayOf(req[1].written[k].forecastDate) = DayOf(req[2].written[m].forecastDate)
          /\ Triple(req[1].written[k]) # Triple(req[2].written[m])
          /\ \E row \in forecasts :
                /\ SameAsReturned(row, req[2].predictions[m])
                /\ row.confidenceLow > 0

-----------------------------------------------------------------------------
(* Properties of a forecast run whose upsert fails *)

\* request r has written the date of instant t
WroteDate(r, t) ==
    \E k \in 1..Len(req[r].written) : DayOf(req[r].written[k].forecastDate) = DayOf(t)

\* C24: the step in which an upsert fails leaves the table as it is and ends
\* the request with an error and no predictions; the request does nothing
\* after it (no retry); and once the second of two runs has failed at its
\* k-th upsert, the dates of its first k-1 iterations hold the rows it wrote,
\* and the dates the first run wrote that it did not reach hold the rows of
\* the first run.
C24_FailureKeepsWrittenRows ==
    /\ [][ \A r \in Slots :
              /\ (req[r].pc = "loop" /\ req'[r].pc = "failed") =>
                    /\ forecasts' = forecasts
                    /\ req'[r].predictions = <<>>
                    /\ req'[r].written = req[r].written
              /\ req[r].pc = "failed" => req'[r] = req[r] ]_vars
    /\ []((runs = 2 /\ req[2].pc = "failed") =>
            /\ \A k \in 1..Len(req[2].written) :
                  \A row \in RowsOfDate(forecasts, req[2].written[k].forecastDate) :
                      Triple(row) = Triple(req[2].written[k])
            /\ \A k \in 1..Len(req[1].written) :
                  LET t == req[1].written[k].forecastDate IN
                  /\ RowsOfDate(forecasts, t) # {}
                  /\ ~WroteDate(2, t) =>
                        \A row \in RowsOfDate(forecasts, t) :
                            Triple(row) = Triple(req[1].written[k]))

\* C24 witness: the second run failed at its second upsert after overwriting
\* the first date with other values; the second date keeps the row of the
\* first run
C24_Witness ==
    /\ req[1].pc = "done" /\ Len(req[1].written) = 2
    /\ req[2].pc = "failed" /\ Len(req[2].written) = 1 /\ req[2].days = 2
    /\ Triple(req[2].written[1]) # Triple(req[1].written[1])
    /\ \A row \in RowsOfDate(forecasts, req[1].written[1].forecastDate) :
          Triple(row) = Triple(req[2].written[1])
    /\ \A row \in RowsOfDate(forecasts, req[1].written[2].forecastDate) :
          Triple(row) = Triple(req[1].written[2])

-----------------------------------------------------------------------------
(* Properties of the utilization map *)

\* the hours of the shifts suggested to a member on day k, and over the week
SuggestedHoursOn(k, id) ==
    LET day == schedule.recommendations[k].suggestedShifts IN
    SumSeq([ m \in 1..Len(day) |-> IF day[m].staffId = id THEN day[m].hours ELSE 0 ], 1)
SuggestedHours(id) ==
    SumSeq([ k \in 1..Len(schedule.recommendations) |-> SuggestedHoursOn(k, id) ], 1)

\* the members with a suggested shift
SuggestedStaff ==
    UNION { { schedule.recommendations[k].suggestedShifts[m].staffId :
                m \in 1..Len(schedule.recommendations[k].suggestedShifts) } :
            k \in 1..Len(schedule.recommendations) }

\* C25: staffUtilization has an entry for exactly the members with a
\* suggested shift, the entry is the sum of the hours of the member's shifts
\* over all days, every shift is of 9 hours, and totalShiftsRecommended is
\* the number of suggested shifts over all days.
C25_UtilizationMatchesShifts ==
    schedule.kind = "schedule" =>
        /\ DOMAIN schedule.staffUtilization = SuggestedStaff
        /\ \A id \in SuggestedStaff :
              schedule.staffUtilization[id] = SuggestedHours(id)
        /\ \A k \in 1..Len(schedule.recommendations) :
              \A m \in 1..Len(schedule.recommendations[k].suggestedShifts) :
                  schedule.recommendations[k].suggestedShifts[m].hours = ShiftHours
        /\ schedule.totalShiftsRecommended
              = SumSeq([ k \in 1..Len(schedule.recommendations) |->
                           Len(schedule.recommendations[k].suggestedShifts) ], 1)

\* C25 witness: two members have shifts, one of them on two days, the other
\* on one
C25_Witness ==
    /\ schedule.kind = "schedule"
    /\ Cardinality(SuggestedStaff) = 2
    /\ \E id \in SuggestedStaff : schedule.staffUtilization[id] = 2 * ShiftHours
    /\ \E id \in SuggestedStaff : schedule.staffUtilization[id] = ShiftHours

-----------------------------------------------------------------------------
(* Properties of the days of a schedule *)

\* C26: no day recommendation suggests two shifts to the same member, and no
\* two day recommendations are for the same calendar date, whatever forecast
\* runs have filled the table.
C26_OneShiftPerMemberAndDate ==
    schedule.kind = "schedule" =>
        /\ \A k \in 1..Len(schedule.recommendations) :
              LET day == schedule.recommendations[k].suggestedShifts IN
              \A m, n \in 1..Len(day) : m # n => day[m].staffId # day[n].staffId
        /\ \A j, k \in 1..Len(schedule.recommendations) :
              j # k => schedule.recommendations[j].date # schedule.recommendations[k].date

\* C26 witness: two runs wrote the same date at different instants with
\* different covers, and the schedule made afterwards has that date once,
\* with the covers of the later run and a shift for each server
C26_Witness ==
    /\ schedule.kind = "schedule"
    /\ \E a \in 1..Len(req[1].written), b \in 1..Len(req[2].written) :
          /\ req[1].written[a].forecastDate # req[2].written[b].forecastDate
          /\ DayOf(req[1].written[a].forecastDate) = DayOf(req[2].written[b].forecastDate)
          /\ req[1].written[a].predictedCovers # req[2].written[b].predictedCovers
          /\ \E k \in 1..Len(schedule.recommendations) :
                /\ schedule.recommendations[k].date = DayOf(req[2].written[b].forecastDate)
                /\ schedule.recommendations[k].expectedCovers = req[2].written[b].predictedCovers
                /\ Len(schedule.recommendations[k].suggestedShifts) = 2
                /\ \A row \in RowsOfDate(forecasts, req[2].written[b].forecastDate) :
                      row.predictedCovers = req[2].written[b].predictedCovers

-----------------------------------------------------------------------------
(* Properties of the profitability label *)

\* C27: when items were sold, a record is a Star or a Puzzle exactly when
\* its profit is at least the average profit of the sold items (their
\* profits added up, over their number), and a Plowhorse or a Dog when it is
\* below it, whatever the sign of that average.
C27_LabelFollowsProfit ==
    (Analysed /\ SoldIds # {}) =>
        \A k \in 1..Len(engineering.analysis) :
            LET a == engineering.analysis[k] IN
            /\ a.classification \in {"Star", "Puzzle"} =>
                  a.profit * Cardinality(SoldIds) >= TotalProfit
            /\ a.classification \in {"Plowhorse", "Dog"} =>
                  a.profit * Cardinality(SoldIds) < TotalProfit

-----------------------------------------------------------------------------
(* Properties of the inventory *)

\* C28: the currentQuantity of every inventory item is never negative; a
\* step that adds a waste-log row adds exactly one, and when the row names
\* an item that item's currentQuantity goes down by the logged quantity
\* and no other item changes.
C28_QuantityNeverNegative ==
    /\ [](\A id \in DOMAIN inventory : inventory[id].currentQuantity >= 0)
    /\ [][ wasteLogs' # wasteLogs =>
              /\ Len(wasteLogs') = Len(wasteLogs) + 1
              /\ SubSeq(wasteLogs', 1, Len(wasteLogs)) = wasteLogs
              /\ LET row == wasteLogs'[Len(wasteLogs')] IN
                 \A id \in DOMAIN inventory :
                     inventory'[id].currentQuantity =
                         IF id = row.inventoryItemId
                         THEN inventory[id].currentQuantity - row.quantity
                         ELSE inventory[id].currentQuantity ]_vars

-----------------------------------------------------------------------------
(* Properties of the optimizer over registered staff *)

\* C29: when a schedule is made, every day whose servers target is positive
\* has a suggested shift if the staff table holds an active member with the
\* role SERVER (as registration and the seed data store it) whose hours so
\* far are under the cap.
C29_RegisteredServersGetShifts ==
    [][ schedule' # schedule =>
          \A k \in 1..Len(schedule'.recommendations) :
              LET rec == schedule'.recommendations[k] IN
              ( /\ rec.staffing.servers > 0
                /\ \E m \in 1..Len(staff) :
                      /\ staff[m].isActive
                      /\ staff[m].role = "SERVER"
                      /\ HoursOf(schedule'.staffUtilization, staff[m].id)
                            < EffectiveMaxHours(schedule'.maxHoursPerEmployee) )
              => Len(rec.suggestedShifts) > 0 ]_vars

-----------------------------------------------------------------------------
(* Properties of the rate limiter *)

\* C30: a counter key that is in Redis carries an expiry as soon as no call
\* stands between its increment and its expire, also after a call whose
\* expire failed; and every call that counted returns allowed exactly when
\* its count is at most maxRequests, with remaining max(0, maxRequests -
\* count).
C30_KeysCarryExpiry ==
    /\ (KeyLive(now) /\ \A c \in CallSlots : calls[c].pc # "expire")
          => rateKey.expiry # Null
    /\ \A c \in CallSlots :
          (calls[c].pc = "done" /\ calls[c].current # Null) =>
              /\ calls[c].result.allowed = (calls[c].current <= RateMax)
              /\ calls[c].result.remaining = Max(0, RateMax - calls[c].current)

====
